---- MODULE Spec2Model ----
(***************************************************************************)
(* QuickBooksClient (auth/oauth.ts): the OAuth access-token cache with its *)
(* lazy refresh-token exchange, the request interceptor, and the builders  *)
(* that turn typed options into the remote query language; the tools'      *)
(* handlers and input schemas; and the HTTP server's session map           *)
(* (index.ts, runHTTP).                                                    *)
(*                                                                         *)
(* Strings are TLA+ strings; a template literal is kept as the sequence of *)
(* its pieces (literal text and interpolated values), so that "the query   *)
(* contains X" is a statement about consecutive pieces, and Flatten gives  *)
(* the text that goes on the wire.                                         *)
(***************************************************************************)
EXTENDS Integers, Sequences, FiniteSets, TLC

VARIABLES
    accessToken,   \* this.accessToken
    tokenExpiry,   \* this.tokenExpiry, in ms since the epoch
    config,        \* this.config (the caller's credentials record)
    now,           \* the wall clock, Date.now(), in ms
    pc,            \* per caller: where its operation stands
    call,          \* per caller: the operation invoked and its argument
    req,           \* per caller: the request handed to this.api
    token,         \* per caller: the interceptor's local const token
    wire,          \* per caller: the API request as sent, headers included
    grant,         \* per caller: the refresh-token grant request in flight
    result,        \* per caller: how the operation's promise settled
    authErr,       \* per caller: the error its token exchange failed with
    resp,          \* per caller: what the remote API answered its request with
    chk,           \* per caller: what getAccessToken saw when it ran its test
    nExch,         \* per caller: token exchanges issued by this invocation
    nReq,          \* per caller: API requests sent by this invocation
    first,         \* per caller: this is the first operation since construction
    started,       \* some operation has been invoked since construction
    lastResp,      \* the last successful token response, and the refresh
                   \* token that was stored when it arrived
    issued,        \* the authorization server: the last token response issued
    reply,         \* per caller: the token response on its way to the client
    arrived,       \* the last token response received, and when it arrived
    failed,        \* the refresh token of the last exchange, if it failed and
                   \* no operation has consulted the cache since
    qcall,         \* a function alone: the function applied and its argument
    qsql,          \* a function alone: what it built or returned
    sessions,      \* the HTTP server's session map: session id -> transport
    transports,    \* every transport the HTTP server created, in order
    answer         \* the HTTP request handled last, and how it was answered

vars == <<accessToken, tokenExpiry, config, now, pc, call, req, token, wire,
          grant, result, authErr, resp, chk, nExch, nReq, first, started,
          lastResp, issued, reply, arrived, failed, qcall, qsql, sessions,
          transports, answer>>

clientVars == <<accessToken, tokenExpiry, config, now, pc, call, req, token,
                wire, grant, result, authErr, resp, chk, nExch, nReq, first,
                started, lastResp, issued, reply, arrived, failed>>

httpVars == <<sessions, transports, answer>>

(***************************************************************************)
(* Bounds of the model.                                                    *)
(***************************************************************************)
MaxLimit == 11      \* limits 1..MaxLimit are enumerated
MaxOffset == 2      \* offsets 0..MaxOffset are enumerated
NumProcs == 2       \* callers of the client
MaxTicks == 3       \* the clock advances at most this many seconds
MaxQuantity == 2    \* quantities 0..MaxQuantity are enumerated
MaxItems == 2       \* invoices of 1..MaxItems line items are enumerated
MaxRows == 2        \* reports of 0..MaxRows rows are enumerated
MaxRecords == 2     \* a tool renders lists of 0..MaxRecords records
MaxLedger == 3      \* the remote holds 0..MaxLedger invoices
MaxRaceTicks == 1   \* the clock advances at most this many seconds during a race
MaxTransports == 3  \* the HTTP server creates at most this many transports

(***************************************************************************)
(* Program constants.                                                      *)
(***************************************************************************)
DefaultLimit == 100
AccountsDefaultLimit == 1000
DefaultOffset == 0
SafetyMargin == 60
MaxLimitAllowed == 1000
MsPerSec == 1000

(***************************************************************************)
(* JavaScript values.                                                      *)
(***************************************************************************)
\* An options object is a record holding only the keys that were supplied.
Empty == [k \in {} |-> 0]

Has(o, k) == k \in DOMAIN o

\* `${n}` for a non-negative integer: its decimal digits.
Digit(d) ==
    CASE d = 0 -> "0" [] d = 1 -> "1" [] d = 2 -> "2" [] d = 3 -> "3"
      [] d = 4 -> "4" [] d = 5 -> "5" [] d = 6 -> "6" [] d = 7 -> "7"
      [] d = 8 -> "8" [] d = 9 -> "9"

RECURSIVE NumStr(_)
NumStr(n) == IF n < 10 THEN Digit(n) ELSE NumStr(n \div 10) \o Digit(n % 10)

\* options.k || d for a number: 0 and undefined are falsy.
NumOr(o, k, d) == IF Has(o, k) /\ o[k] # 0 THEN o[k] ELSE d

\* if (options.k) for a string: "" and undefined are falsy.
StrTruthy(o, k) == Has(o, k) /\ o[k] # ""

\* Array.prototype.join over an array of pieces-sequences.
RECURSIVE Join(_, _)
Join(conds, sep) ==
    IF conds = <<>> THEN <<>>
    ELSE IF Len(conds) = 1 THEN Head(conds)
    ELSE Head(conds) \o <<sep>> \o Join(Tail(conds), sep)

\* The text of a pieces-sequence.
RECURSIVE Flatten(_)
Flatten(s) == IF s = <<>> THEN "" ELSE Head(s) \o Flatten(Tail(s))

\* The pieces sub stand in s, one after the other.
Contains(s, sub) ==
    \E i \in 1..(Len(s) - Len(sub) + 1) : SubSeq(s, i, i + Len(sub) - 1) = sub

\* A value that may be undefined.
Undefined == [defined |-> FALSE]
Defined(v) == [defined |-> TRUE, value |-> v]

\* conditions.length ? conditions.join(" AND ") : undefined
WhereOf(conds) ==
    IF Len(conds) # 0 THEN Defined(Join(conds, " AND ")) ELSE Undefined

(***************************************************************************)
(* QuickBooksClient.query: the request it hands to this.api.get.           *)
(***************************************************************************)
PaginationZeroBased(limit, offset) ==
    <<" STARTPOSITION ", NumStr(offset), " MAXRESULTS ", NumStr(limit)>>

Pagination(limit, offset) ==
    <<" STARTPOSITION ", NumStr(offset + 1), " MAXRESULTS ", NumStr(limit)>>

QueryAlwaysWhere(entityType, whereClause, limit, offset) ==
    LET select == <<"SELECT * FROM ", entityType>>
        filtered == select \o <<" WHERE ">>
                    \o (IF whereClause.defined THEN whereClause.value ELSE <<>>)
    IN [method |-> "GET", url |-> "/query", entity |-> entityType,
        query |-> filtered \o Pagination(limit, offset)]

Query(entityType, whereClause, limit, offset) ==
    LET select == <<"SELECT * FROM ", entityType>>
        filtered == IF whereClause.defined /\ Flatten(whereClause.value) # ""
                    THEN select \o <<" WHERE ">> \o whereClause.value
                    ELSE select
    IN [method |-> "GET", url |-> "/query", entity |-> entityType,
        query |-> filtered \o Pagination(limit, offset)]

(***************************************************************************)
(* The five list operations: the conditions each pushes, in order, and the *)
(* call of query that ends it.                                             *)
(***************************************************************************)
Push(cond, piece) == IF cond THEN <<piece>> ELSE <<>>

ActiveWantedTruthy(options) == Has(options, "activeOnly") /\ options.activeOnly = TRUE

ActiveWanted(options) == ~(Has(options, "activeOnly") /\ options.activeOnly = FALSE)

SearchPredicateEscaped(search) ==
    <<"DisplayName LIKE '%", IF search = "O'Brien" THEN "O''Brien" ELSE search, "%'">>

SearchPredicate(search) == <<"DisplayName LIKE '%", search, "%'">>

CustomerConditions(options) ==
    Push(ActiveWanted(options), <<"Active = true">>)
    \o (IF StrTruthy(options, "search")
        THEN <<SearchPredicate(options.search)>> ELSE <<>>)

QueryCustomers(options) ==
    Query("Customer", WhereOf(CustomerConditions(options)),
          NumOr(options, "limit", DefaultLimit),
          NumOr(options, "offset", DefaultOffset))

InvoiceStatusConditionsSwapped(options) ==
    IF Has(options, "status") /\ options.status = "open"
    THEN <<(<<"Balance = '0'">>)>>
    ELSE IF Has(options, "status") /\ options.status = "paid"
    THEN <<(<<"Balance > '0'">>)>>
    ELSE <<>>

InvoiceStatusConditionsOverdue(options) ==
    IF Has(options, "status") /\ options.status \in {"open", "overdue"}
    THEN <<(<<"Balance > '0'">>)>>
    ELSE IF Has(options, "status") /\ options.status = "paid"
    THEN <<(<<"Balance = '0'">>)>>
    ELSE <<>>

InvoiceStatusConditions(options) ==
    IF Has(options, "status") /\ options.status = "open"
    THEN <<(<<"Balance > '0'">>)>>
    ELSE IF Has(options, "status") /\ options.status = "paid"
    THEN <<(<<"Balance = '0'">>)>>
    ELSE <<>>

InvoiceConditionsStatusFirst(options) ==
    InvoiceStatusConditions(options)
    \o (IF StrTruthy(options, "customerId")
        THEN <<(<<"CustomerRef = '", options.customerId, "'">>)>> ELSE <<>>)
    \o (IF StrTruthy(options, "startDate")
        THEN <<(<<"TxnDate >= '", options.startDate, "'">>)>> ELSE <<>>)
    \o (IF StrTruthy(options, "endDate")
        THEN <<(<<"TxnDate <= '", options.endDate, "'">>)>> ELSE <<>>)

InvoiceConditions(options) ==
    (IF StrTruthy(options, "customerId")
     THEN <<(<<"CustomerRef = '", options.customerId, "'">>)>> ELSE <<>>)
    \o InvoiceStatusConditions(options)
    \o (IF StrTruthy(options, "startDate")
        THEN <<(<<"TxnDate >= '", options.startDate, "'">>)>> ELSE <<>>)
    \o (IF StrTruthy(options, "endDate")
        THEN <<(<<"TxnDate <= '", options.endDate, "'">>)>> ELSE <<>>)

QueryInvoices(options) ==
    Query("Invoice", WhereOf(InvoiceConditions(options)),
          NumOr(options, "limit", DefaultLimit),
          NumOr(options, "offset", DefaultOffset))

AccountConditionsTypeFirst(options) ==
    (IF StrTruthy(options, "accountType")
     THEN <<(<<"AccountType = '", options.accountType, "'">>)>> ELSE <<>>)
    \o <<(<<"Active = true">>)>>

AccountConditions(options) ==
    <<(<<"Active = true">>)>>
    \o (IF StrTruthy(options, "accountType")
        THEN <<(<<"AccountType = '", options.accountType, "'">>)>> ELSE <<>>)

QueryAccountsDefault100(options) ==
    Query("Account", Defined(Join(AccountConditions(options), " AND ")),
          NumOr(options, "limit", DefaultLimit),
          NumOr(options, "offset", DefaultOffset))

QueryAccounts(options) ==
    Query("Account", Defined(Join(AccountConditions(options), " AND ")),
          NumOr(options, "limit", AccountsDefaultLimit),
          NumOr(options, "offset", DefaultOffset))

\* listAccounts.handler: the options it calls client.queryAccounts with.  A
\* key whose value is undefined is a key that was not supplied.
ListAccountsArgs(params) ==
    IF params.account_type = "all" THEN Empty
    ELSE [accountType |-> params.account_type]

VendorConditions(options) ==
    Push(ActiveWanted(options), <<"Active = true">>)

QueryVendors(options) ==
    Query("Vendor", WhereOf(VendorConditions(options)),
          NumOr(options, "limit", DefaultLimit),
          NumOr(options, "offset", DefaultOffset))

BillStatusConditions(options) ==
    IF Has(options, "status") /\ options.status = "unpaid"
    THEN <<(<<"Balance > '0'">>)>>
    ELSE IF Has(options, "status") /\ options.status = "paid"
    THEN <<(<<"Balance = '0'">>)>>
    ELSE <<>>

BillConditionsStatusFirst(options) ==
    BillStatusConditions(options)
    \o (IF StrTruthy(options, "vendorId")
        THEN <<(<<"VendorRef = '", options.vendorId, "'">>)>> ELSE <<>>)

BillConditions(options) ==
    (IF StrTruthy(options, "vendorId")
     THEN <<(<<"VendorRef = '", options.vendorId, "'">>)>> ELSE <<>>)
    \o BillStatusConditions(options)

QueryBills(options) ==
    Query("Bill", WhereOf(BillConditions(options)),
          NumOr(options, "limit", DefaultLimit),
          NumOr(options, "offset", DefaultOffset))

(***************************************************************************)
(* The options the list operations are called with.  Limits and offsets    *)
(* are the integers the tools' input schemas let through (limit >= 1,      *)
(* offset >= 0); strings are any string, the empty one included.           *)
(***************************************************************************)
LimitPart == {Empty} \cup {[limit |-> n] : n \in 1..MaxLimit}
OffsetPart == {Empty} \cup {[offset |-> n] : n \in 0..MaxOffset}
ActivePart == {Empty} \cup {[activeOnly |-> b] : b \in BOOLEAN}
StrPart(k, values) == {Empty} \cup {[x \in {k} |-> v] : v \in values}

SearchTerms == {"", "Acme", "O'Brien"}
CustomerIds == {"", "123"}
StartDates == {"", "2026-01-01"}
EndDates == {"", "2026-01-31"}
InvoiceStatuses == {"all", "open", "paid", "overdue"}
AccountTypes == {"Bank", "Expense"}
AccountTypeFilters == {"all", "Bank", "Accounts Receivable", "Income"}
VendorIds == {"", "56"}
BillStatuses == {"all", "unpaid", "paid"}

Paged == {l @@ o : l \in LimitPart, o \in OffsetPart}

CustomerOptions ==
    {p @@ a @@ s : p \in Paged, a \in ActivePart, s \in StrPart("search", SearchTerms)}
InvoiceOptions ==
    {p @@ c @@ s @@ d @@ e :
        p \in Paged, c \in StrPart("customerId", CustomerIds),
        s \in StrPart("status", InvoiceStatuses),
        d \in StrPart("startDate", StartDates),
        e \in StrPart("endDate", EndDates)}
AccountOptions == {p @@ t : p \in Paged, t \in StrPart("accountType", AccountTypes)}
VendorOptions == {p @@ a : p \in Paged, a \in ActivePart}
BillOptions ==
    {p @@ v @@ s : p \in Paged, v \in StrPart("vendorId", VendorIds),
                   s \in StrPart("status", BillStatuses)}

\* The parameters qbo_list_accounts hands its handler once its schema has
\* filled the defaults in.
ListAccountsParams ==
    {[account_type |-> t, response_format |-> f] :
        t \in AccountTypeFilters, f \in {"json", "markdown"}}

ListOps == {"queryCustomers", "queryInvoices", "queryAccounts",
            "queryVendors", "queryBills"}

OptionsOf(op) ==
    CASE op = "queryCustomers" -> CustomerOptions
      [] op = "queryInvoices" -> InvoiceOptions
      [] op = "queryAccounts" -> AccountOptions
      [] op = "queryVendors" -> VendorOptions
      [] op = "queryBills" -> BillOptions

BuildQuery(op, options) ==
    CASE op = "queryCustomers" -> QueryCustomers(options)
      [] op = "queryInvoices" -> QueryInvoices(options)
      [] op = "queryAccounts" -> QueryAccounts(options)
      [] op = "queryVendors" -> QueryVendors(options)
      [] op = "queryBills" -> QueryBills(options)

(***************************************************************************)
(* getCustomer, createInvoice and getProfitAndLossReport: the requests     *)
(* they hand to this.api.                                                  *)
(***************************************************************************)
GetCustomerRequest(id) ==
    [method |-> "GET", url |-> <<"/customer/", id>>]

\* item.quantity || 1
QtyOf(item) == NumOr(item, "quantity", 1)

\* data.lineItems.map((item, idx) => ...)
SalesLine(item, idx) ==
    [Id |-> NumStr(idx + 1),
     Amount |-> item.amount * QtyOf(item),
     DetailType |-> "SalesItemLineDetail",
     Description |-> item.description,
     SalesItemLineDetail |-> [Qty |-> QtyOf(item), UnitPrice |-> item.amount]]

InvoiceData(data) ==
    [CustomerRef |-> [value |-> data.customerId],
     Line |-> [i \in 1..Len(data.lineItems) |-> SalesLine(data.lineItems[i], i - 1)]]
    @@ (IF StrTruthy(data, "dueDate") THEN [DueDate |-> data.dueDate] ELSE Empty)
    @@ (IF StrTruthy(data, "memo")
        THEN [CustomerMemo |-> [value |-> data.memo]] ELSE Empty)

CreateInvoiceRequest(data) ==
    [method |-> "POST", url |-> <<"/invoice">>, body |-> InvoiceData(data)]

ProfitAndLossRequest(startDate, endDate) ==
    [method |-> "GET", url |-> <<"/reports/ProfitAndLoss">>,
     params |-> [start_date |-> startDate, end_date |-> endDate]]

AllOps == ListOps \cup {"getCustomer", "createInvoice", "getProfitAndLossReport"}

\* The request an operation builds before it awaits this.api.
BuildRequest(c) ==
    CASE c.op \in ListOps -> BuildQuery(c.op, c.arg)
      [] c.op = "getCustomer" -> GetCustomerRequest(c.arg)
      [] c.op = "createInvoice" -> CreateInvoiceRequest(c.arg)
      [] c.op = "getProfitAndLossReport" ->
            ProfitAndLossRequest(c.arg.startDate, c.arg.endDate)

(***************************************************************************)
(* What an operation makes of a successful response.                       *)
(***************************************************************************)
Value(v) == [ok |-> TRUE, value |-> v]
Failure(e) == [ok |-> FALSE, error |-> e]
Null == [null |-> TRUE]

Reverse(q) == [i \in 1..Len(q) |-> q[Len(q) + 1 - i]]

QueryResultReversed(entityType, body) ==
    IF ~Has(body, "QueryResponse") THEN Failure("TypeError")
    ELSE IF Has(body.QueryResponse, entityType)
         THEN Value(Reverse(body.QueryResponse[entityType]))
         ELSE Value(<<>>)

\* const data = response.data.QueryResponse; return data[entityType] || [];
\* data[entityType] throws a TypeError when data is undefined.
QueryResult(entityType, body) ==
    IF ~Has(body, "QueryResponse") THEN Failure("TypeError")
    ELSE IF Has(body.QueryResponse, entityType)
         THEN Value(body.QueryResponse[entityType])
         ELSE Value(<<>>)

ParseFloatStrict(s) ==
    CASE s = "10000.00" -> Defined(10000)
      [] s = "4500" -> Defined(4500)
      [] s = "0" -> Defined(0)
      [] OTHER -> Undefined

\* parseFloat over the column values the model's reports carry: it reads
\* the longest numeric prefix; NaN is Undefined.
ParseFloat(s) ==
    CASE s = "10000.00" -> Defined(10000)
      [] s = "4500" -> Defined(4500)
      [] s = "0" -> Defined(0)
      [] s = "12abc" -> Defined(12)
      [] OTHER -> Undefined

\* r.type === type || r.group === type, for a row that is an object.
RowMatches(r, type) ==
    \/ Has(r, "type") /\ r.type = type
    \/ Has(r, "group") /\ r.group = type

\* rows.find(...) reads r.type of every row up to the first match: of a
\* row that is null this throws a TypeError.
RECURSIVE FindThrows(_, _)
FindThrows(rows, type) ==
    IF rows = <<>> THEN FALSE
    ELSE IF Head(rows) = Null THEN TRUE
    ELSE IF RowMatches(Head(rows), type) THEN FALSE
    ELSE FindThrows(Tail(rows), type)

\* rows.find(...), when it does not throw.
RECURSIVE Find(_, _)
Find(rows, type) ==
    IF rows = <<>> THEN Undefined
    ELSE IF RowMatches(Head(rows), type) THEN Defined(Head(rows))
    ELSE Find(Tail(rows), type)

\* row?.Summary?.ColData?.[1]?.value
SummaryValue(found) ==
    IF ~found.defined THEN Undefined
    ELSE IF ~Has(found.value, "Summary") THEN Undefined
    ELSE IF ~Has(found.value.Summary, "ColData") THEN Undefined
    ELSE IF Len(found.value.Summary.ColData) < 2 THEN Undefined
    ELSE IF ~Has(found.value.Summary.ColData[2], "value") THEN Undefined
    ELSE Defined(found.value.Summary.ColData[2].value)

parseAmount(rows, type) ==
    LET v == SummaryValue(Find(rows, type))
    IN IF v.defined /\ v.value # ""
       THEN (IF ParseFloat(v.value).defined THEN ParseFloat(v.value).value ELSE 0)
       ELSE 0

\* const rows = report.Rows?.Row || [];
ReportRows(report) ==
    IF Has(report, "Rows") /\ Has(report.Rows, "Row") THEN report.Rows.Row ELSE <<>>

ProfitAndLoss(report) ==
    [totalIncome |-> parseAmount(ReportRows(report), "Income"),
     totalCOGS |-> parseAmount(ReportRows(report), "COGS"),
     grossProfit |-> parseAmount(ReportRows(report), "GrossProfit"),
     totalExpenses |-> parseAmount(ReportRows(report), "Expenses"),
     netIncome |-> parseAmount(ReportRows(report), "NetIncome")]

\* response.data.Customer / response.data.Invoice: undefined when absent.
Field(body, k) == IF Has(body, k) THEN Defined(body[k]) ELSE Undefined

Discriminators == {"Income", "COGS", "GrossProfit", "Expenses", "NetIncome"}

\* What getProfitAndLossReport makes of response.data.
ProfitAndLossResult(report) ==
    IF \E type \in Discriminators : FindThrows(ReportRows(report), type)
    THEN Failure("TypeError")
    ELSE Value(ProfitAndLoss(report))

OnSuccess(c, body) ==
    CASE c.op \in ListOps -> QueryResult(BuildRequest(c).entity, body)
      [] c.op = "getCustomer" -> Value(Field(body, "Customer"))
      [] c.op = "createInvoice" -> Value(Field(body, "Invoice"))
      [] c.op = "getProfitAndLossReport" -> ProfitAndLossResult(body)

\* A rejection of this.api's promise: getCustomer's catch turns it into
\* null, every other operation lets it through.
OnFailureEmpty(c, e) ==
    IF c.op = "getCustomer" THEN Value(Null)
    ELSE IF c.op \in ListOps THEN Value(<<>>) ELSE Failure(e)

OnFailureRethrown(c, e) == Failure(e)

OnFailureDefault(c, e) ==
    IF c.op = "getCustomer" THEN Value(Null)
    ELSE IF c.op = "getProfitAndLossReport" THEN Value(ProfitAndLoss(Empty))
    ELSE Failure(e)

OnFailure(c, e) ==
    IF c.op = "getCustomer" THEN Value(Null) ELSE Failure(e)

\* An error thrown while the response is read (query's data[entityType]) is
\* a rejection like any other.
Settle(c, outcome) ==
    IF outcome.ok THEN outcome ELSE OnFailure(c, outcome.error)

(***************************************************************************)
(* The token cache.                                                        *)
(***************************************************************************)
\* if (this.accessToken && this.tokenExpiry > new Date())
TokenValidInclusive(tok, expiry, t) == tok # "" /\ expiry >= t

TokenValid(tok, expiry, t) == tok # "" /\ expiry > t

\* new Date(Date.now() + (response.data.expires_in - 60) * 1000)
NewExpiryTwice(t, expires_in) ==
    t + (expires_in - SafetyMargin - SafetyMargin) * MsPerSec

NewExpiry(t, expires_in) == t + (expires_in - SafetyMargin) * MsPerSec

\* if (response.data.refresh_token) this.config.refreshToken = ...
RotateNever(cfg, data) == cfg

Rotate(cfg, data) ==
    IF StrTruthy(data, "refresh_token")
    THEN [cfg EXCEPT !.refreshToken = data.refresh_token]
    ELSE cfg

\* The refresh-token grant posted to the authorization server.
GrantRequestConfigured(cfg) ==
    [url |-> "https://oauth.platform.intuit.com/oauth2/v1/tokens/bearer",
     basic |-> <<cfg.clientId, ":", cfg.clientSecret>>,
     grant_type |-> "refresh_token",
     refresh_token |-> "rt0"]

GrantRequest(cfg) ==
    [url |-> "https://oauth.platform.intuit.com/oauth2/v1/tokens/bearer",
     basic |-> <<cfg.clientId, ":", cfg.clientSecret>>,
     grant_type |-> "refresh_token",
     refresh_token |-> cfg.refreshToken]

\* config.headers.Authorization = `Bearer ${token}`
WithAuthStale(request, tok) ==
    request @@ [headers |-> [Authorization |-> <<"Bearer ", accessToken>>,
                             Accept |-> "application/json"]]

WithAuth(request, tok) ==
    request @@ [headers |-> [Authorization |-> <<"Bearer ", tok>>,
                             Accept |-> "application/json"]]

(***************************************************************************)
(* The environment: callers, the authorization server, the remote API.     *)
(***************************************************************************)
Procs == 1..NumProcs

InitialConfig ==
    [clientId |-> "client", clientSecret |-> "secret", refreshToken |-> "rt0",
     companyId |-> "9341", environment |-> "sandbox"]

AccessTokens == {"abc", "def"}
RefreshTokens == {"xyz", "uvw"}
Lifetimes == {SafetyMargin - 1, SafetyMargin, SafetyMargin + 1, SafetyMargin + 2}
AuthErrors == {"invalid_grant"}
ApiErrors == {"401", "ECONNRESET"}

\* A token response always carries access_token and expires_in; it may or
\* may not carry a rotated refresh token.
TokenResponses ==
    {[access_token |-> a, expires_in |-> e] @@ r :
        a \in AccessTokens, e \in Lifetimes,
        r \in StrPart("refresh_token", RefreshTokens)}

\* The operations the callers invoke in the client's state machine.
ClientCalls ==
    {[op |-> "queryCustomers", arg |-> [search |-> "Acme"]],
     [op |-> "queryInvoices", arg |-> [status |-> "open", limit |-> 10]],
     [op |-> "queryAccounts", arg |-> Empty],
     [op |-> "queryVendors", arg |-> [activeOnly |-> FALSE]],
     [op |-> "queryBills", arg |-> [vendorId |-> "56"]],
     [op |-> "getCustomer", arg |-> "42"],
     [op |-> "createInvoice",
      arg |-> [customerId |-> "123",
               lineItems |-> <<[description |-> "Cleaning", amount |-> 150,
                                quantity |-> 2],
                               [description |-> "Supplies", amount |-> 40]>>]],
     [op |-> "getProfitAndLossReport",
      arg |-> [startDate |-> "2026-01-01", endDate |-> "2026-01-31"]]}

IncomeRow(v) ==
    [group |-> "Income", Summary |-> [ColData |-> <<[value |-> "Total"], [value |-> v]>>]]

\* The bodies the remote API answers an operation with.
Bodies(c) ==
    CASE c.op \in ListOps ->
            {Empty,
             [QueryResponse |-> Empty],
             [QueryResponse |-> [k \in {BuildRequest(c).entity} |-> <<"r2", "r1">>]]}
      [] c.op = "getCustomer" -> {[Customer |-> "customer42"]}
      [] c.op = "createInvoice" -> {[Invoice |-> "invoice7"]}
      [] c.op = "getProfitAndLossReport" ->
            {Empty, [Rows |-> [Row |-> <<IncomeRow("10000.00")>>]]}

(***************************************************************************)
(* The state after construction.                                           *)
(***************************************************************************)
ClientInit ==
    /\ accessToken = ""
    /\ tokenExpiry = 0
    /\ config = InitialConfig
    /\ now = MsPerSec
    /\ pc = [p \in Procs |-> "idle"]
    /\ call = [p \in Procs |-> Undefined]
    /\ req = [p \in Procs |-> Undefined]
    /\ token = [p \in Procs |-> Undefined]
    /\ wire = [p \in Procs |-> Undefined]
    /\ grant = [p \in Procs |-> Undefined]
    /\ result = [p \in Procs |-> Undefined]
    /\ authErr = [p \in Procs |-> Undefined]
    /\ resp = [p \in Procs |-> Undefined]
    /\ chk = [p \in Procs |-> Undefined]
    /\ nExch = [p \in Procs |-> 0]
    /\ nReq = [p \in Procs |-> 0]
    /\ first = [p \in Procs |-> FALSE]
    /\ started = FALSE
    /\ lastResp = Undefined
    /\ issued = Undefined
    /\ reply = [p \in Procs |-> Undefined]
    /\ arrived = Undefined
    /\ failed = Undefined

\* const sessions = new Map(): the HTTP server has no session yet.
ServerInit ==
    /\ sessions = Empty
    /\ transports = <<>>
    /\ answer = Undefined

Init ==
    /\ ClientInit
    /\ ServerInit
    /\ qcall = Undefined
    /\ qsql = Undefined

(***************************************************************************)
(* One operation of the client, step by step.                              *)
(***************************************************************************)
\* A caller invokes an operation: the synchronous part builds the request
\* and hands it to this.api, whose interceptor runs next.
Invoke(p, c) ==
    /\ pc[p] = "idle"
    /\ pc' = [pc EXCEPT ![p] = "intercept"]
    /\ call' = [call EXCEPT ![p] = c]
    /\ req' = [req EXCEPT ![p] = BuildRequest(c)]
    /\ first' = [first EXCEPT ![p] = ~started]
    /\ started' = TRUE
    /\ UNCHANGED <<accessToken, tokenExpiry, config, now, token, wire, grant,
                   result, authErr, chk, nExch, nReq, lastResp, issued, reply,
                   arrived, failed, resp, qcall, qsql, httpVars>>

\* Operations invoked one after the other: the next one starts when the
\* previous one has settled and its result has been taken.
Call(p) ==
    /\ \A q \in Procs : pc[q] = "idle"
    /\ \E c \in ClientCalls : Invoke(p, c)

\* The interceptor calls getAccessToken, which finds the cached token
\* valid; the interceptor attaches it and the request is sent.
Reuse(p) ==
    /\ pc[p] = "intercept"
    /\ TokenValid(accessToken, tokenExpiry, now)
    /\ chk' = [chk EXCEPT ![p] = [time |-> now, accessToken |-> accessToken,
                                  tokenExpiry |-> tokenExpiry]]
    /\ token' = [token EXCEPT ![p] = Defined(accessToken)]
    /\ wire' = [wire EXCEPT ![p] = WithAuth(req[p], accessToken)]
    /\ nReq' = [nReq EXCEPT ![p] = @ + 1]
    /\ pc' = [pc EXCEPT ![p] = "inflight"]
    /\ failed' = Undefined
    /\ UNCHANGED <<accessToken, tokenExpiry, config, now, call, req, grant,
                   result, authErr, nExch, first, started, lastResp, issued,
                   reply, arrived, resp, qcall, qsql, httpVars>>

\* getAccessToken finds no valid token and posts the refresh-token grant.
ExchangeSingleFlight(p) ==
    /\ pc[p] = "intercept"
    /\ \A q \in Procs : pc[q] # "exchange"
    /\ ~TokenValid(accessToken, tokenExpiry, now)
    /\ chk' = [chk EXCEPT ![p] = [time |-> now, accessToken |-> accessToken,
                                  tokenExpiry |-> tokenExpiry]]
    /\ grant' = [grant EXCEPT ![p] = GrantRequest(config)]
    /\ nExch' = [nExch EXCEPT ![p] = @ + 1]
    /\ pc' = [pc EXCEPT ![p] = "exchange"]
    /\ failed' = Undefined
    /\ UNCHANGED <<accessToken, tokenExpiry, config, now, call, req, token,
                   wire, result, authErr, nReq, first, started, lastResp,
                   issued, reply, arrived, resp, qcall, qsql, httpVars>>

Exchange(p) ==
    /\ pc[p] = "intercept"
    /\ ~TokenValid(accessToken, tokenExpiry, now)
    /\ chk' = [chk EXCEPT ![p] = [time |-> now, accessToken |-> accessToken,
                                  tokenExpiry |-> tokenExpiry]]
    /\ grant' = [grant EXCEPT ![p] = GrantRequest(config)]
    /\ nExch' = [nExch EXCEPT ![p] = @ + 1]
    /\ pc' = [pc EXCEPT ![p] = "exchange"]
    /\ failed' = Undefined
    /\ UNCHANGED <<accessToken, tokenExpiry, config, now, call, req, token,
                   wire, result, authErr, nReq, first, started, lastResp,
                   issued, reply, arrived, resp, qcall, qsql, httpVars>>

\* A token response is received: getAccessToken stores it and returns the
\* token, the interceptor attaches it and the request is sent.
StoreLaterExpiry(p, data) ==
    /\ accessToken' = data.access_token
    /\ tokenExpiry' = IF tokenExpiry > NewExpiry(now, data.expires_in)
                      THEN tokenExpiry ELSE NewExpiry(now, data.expires_in)
    /\ config' = Rotate(config, data)
    /\ token' = [token EXCEPT ![p] = Defined(data.access_token)]
    /\ wire' = [wire EXCEPT ![p] = WithAuth(req[p], data.access_token)]
    /\ lastResp' = [access_token |-> data.access_token,
                    refresh_token |-> Field(data, "refresh_token"),
                    previous |-> config.refreshToken]
    /\ nReq' = [nReq EXCEPT ![p] = @ + 1]
    /\ pc' = [pc EXCEPT ![p] = "inflight"]
    /\ UNCHANGED <<now, call, req, grant, result, authErr, chk, nExch, first,
                   started, resp, qcall, qsql, httpVars>>

Store(p, data) ==
    /\ accessToken' = data.access_token
    /\ tokenExpiry' = NewExpiry(now, data.expires_in)
    /\ config' = Rotate(config, data)
    /\ token' = [token EXCEPT ![p] = Defined(data.access_token)]
    /\ wire' = [wire EXCEPT ![p] = WithAuth(req[p], data.access_token)]
    /\ lastResp' = [access_token |-> data.access_token,
                    refresh_token |-> Field(data, "refresh_token"),
                    previous |-> config.refreshToken]
    /\ nReq' = [nReq EXCEPT ![p] = @ + 1]
    /\ pc' = [pc EXCEPT ![p] = "inflight"]
    /\ UNCHANGED <<now, call, req, grant, result, authErr, chk, nExch, first,
                   started, resp, qcall, qsql, httpVars>>

\* The authorization server answers the grant with a token response.
ExchangeSucceeds(p) ==
    /\ pc[p] = "exchange"
    /\ \E data \in TokenResponses : Store(p, data)
    /\ UNCHANGED <<issued, reply, arrived, failed>>

\* The exchange fails: axios.post rejects, getAccessToken and the
\* interceptor reject with it, and the operation settles.
ExchangeFailsClearing(p) ==
    /\ pc[p] = "exchange"
    /\ \E e \in AuthErrors :
        /\ result' = [result EXCEPT ![p] = OnFailure(call[p], e)]
        /\ authErr' = [authErr EXCEPT ![p] = Defined(e)]
    /\ pc' = [pc EXCEPT ![p] = "settled"]
    /\ failed' = Defined(grant[p].refresh_token)
    /\ accessToken' = ""
    /\ tokenExpiry' = 0
    /\ UNCHANGED <<config, now, call, req, token, wire, grant, chk, nExch,
                   nReq, first, started, lastResp, issued, reply, arrived,
                   resp, qcall, qsql, httpVars>>

ExchangeFails(p) ==
    /\ pc[p] = "exchange"
    /\ \E e \in AuthErrors :
        /\ result' = [result EXCEPT ![p] = OnFailure(call[p], e)]
        /\ authErr' = [authErr EXCEPT ![p] = Defined(e)]
    /\ pc' = [pc EXCEPT ![p] = "settled"]
    /\ failed' = Defined(grant[p].refresh_token)
    /\ UNCHANGED <<accessToken, tokenExpiry, config, now, call, req, token,
                   wire, grant, chk, nExch, nReq, first, started, lastResp,
                   issued, reply, arrived, resp, qcall, qsql, httpVars>>

\* The remote API answers with a success status.
ApiSucceeds(p) ==
    /\ pc[p] = "inflight"
    /\ \E body \in Bodies(call[p]) :
        /\ result' = [result EXCEPT ![p] = Settle(call[p], OnSuccess(call[p], body))]
        /\ resp' = [resp EXCEPT ![p] = Value(body)]
    /\ pc' = [pc EXCEPT ![p] = "settled"]
    /\ UNCHANGED <<accessToken, tokenExpiry, config, now, call, req, token,
                   wire, grant, authErr, chk, nExch, nReq, first, started,
                   lastResp, issued, reply, arrived, failed, qcall, qsql, httpVars>>

\* The remote API answers with an error status, or the network fails.
ApiFailsInvalidating(p) ==
    /\ pc[p] = "inflight"
    /\ \E e \in ApiErrors :
        /\ result' = [result EXCEPT ![p] = OnFailure(call[p], e)]
        /\ resp' = [resp EXCEPT ![p] = Failure(e)]
    /\ pc' = [pc EXCEPT ![p] = "settled"]
    /\ accessToken' = ""
    /\ tokenExpiry' = 0
    /\ UNCHANGED <<config, now, call, req, token, wire, grant, authErr, chk,
                   nExch, nReq, first, started, lastResp, issued, reply,
                   arrived, failed, qcall, qsql, httpVars>>

ApiFails(p) ==
    /\ pc[p] = "inflight"
    /\ \E e \in ApiErrors :
        /\ result' = [result EXCEPT ![p] = OnFailure(call[p], e)]
        /\ resp' = [resp EXCEPT ![p] = Failure(e)]
    /\ pc' = [pc EXCEPT ![p] = "settled"]
    /\ UNCHANGED <<accessToken, tokenExpiry, config, now, call, req, token,
                   wire, grant, authErr, chk, nExch, nReq, first, started,
                   lastResp, issued, reply, arrived, failed, qcall, qsql, httpVars>>

\* The caller takes the result; its locals are gone.
Return(p) ==
    /\ pc[p] = "settled"
    /\ pc' = [pc EXCEPT ![p] = "idle"]
    /\ call' = [call EXCEPT ![p] = Undefined]
    /\ req' = [req EXCEPT ![p] = Undefined]
    /\ token' = [token EXCEPT ![p] = Undefined]
    /\ wire' = [wire EXCEPT ![p] = Undefined]
    /\ grant' = [grant EXCEPT ![p] = Undefined]
    /\ result' = [result EXCEPT ![p] = Undefined]
    /\ authErr' = [authErr EXCEPT ![p] = Undefined]
    /\ resp' = [resp EXCEPT ![p] = Undefined]
    /\ chk' = [chk EXCEPT ![p] = Undefined]
    /\ nExch' = [nExch EXCEPT ![p] = 0]
    /\ nReq' = [nReq EXCEPT ![p] = 0]
    /\ first' = [first EXCEPT ![p] = FALSE]
    /\ UNCHANGED <<accessToken, tokenExpiry, config, now, started, lastResp,
                   issued, reply, arrived, failed, qcall, qsql, httpVars>>

\* A second passes, up to so many seconds after construction.
Elapse(seconds) ==
    /\ now < MsPerSec + seconds * MsPerSec
    /\ now' = now + MsPerSec
    /\ UNCHANGED <<accessToken, tokenExpiry, config, pc, call, req, token,
                   wire, grant, result, authErr, chk, nExch, nReq, first,
                   started, lastResp, issued, reply, arrived, failed, resp,
                   qcall, qsql, httpVars>>

Tick == Elapse(MaxTicks)

Next ==
    \/ \E p \in Procs : Call(p)
    \/ \E p \in Procs : Reuse(p)
    \/ \E p \in Procs : Exchange(p)
    \/ \E p \in Procs : ExchangeSucceeds(p)
    \/ \E p \in Procs : ExchangeFails(p)
    \/ \E p \in Procs : ApiSucceeds(p)
    \/ \E p \in Procs : ApiFails(p)
    \/ \E p \in Procs : Return(p)
    \/ Tick

Spec == Init /\ [][Next]_vars

(***************************************************************************)
(* Overlapping operations.  The client's methods are async: a caller may   *)
(* start an operation while others are suspended at an await, and the      *)
(* responses to requests in flight arrive in any order.  The authorization *)
(* server handles the grants it receives one at a time.  Each caller runs  *)
(* one operation, followed up to the moment its API request is sent.       *)
(***************************************************************************)
RaceCalls == {[op |-> "getCustomer", arg |-> "42"]}

\* The token responses the authorization server may give to the n-th grant
\* it accepts: a fresh access token, and a fresh refresh token if it rotates.
Issue(n) ==
    {[access_token |-> "at" \o NumStr(n), expires_in |-> e] @@ r :
        e \in {SafetyMargin, SafetyMargin + 1},
        r \in StrPart("refresh_token", {"rt" \o NumStr(n)})}

Serial == IF issued = Undefined THEN 0 ELSE issued.serial

\* A caller starts an operation, whatever the others are doing.
Start(p) == \E c \in RaceCalls : Invoke(p, c)

\* The authorization server accepts caller p's grant and answers it.
Authorize(p) ==
    /\ pc[p] = "exchange"
    /\ reply[p] = Undefined
    /\ \E data \in Issue(Serial + 1) :
        /\ issued' = [serial |-> Serial + 1, data |-> data]
        /\ reply' = [reply EXCEPT ![p] = Defined(data)]
    /\ UNCHANGED <<accessToken, tokenExpiry, config, now, pc, call, req, token,
                   wire, grant, result, authErr, resp, chk, nExch, nReq, first,
                   started, lastResp, arrived, failed, qcall, qsql, httpVars>>

\* The authorization server's answer reaches the client: axios.post resolves
\* and getAccessToken runs on to its return.
Deliver(p) ==
    /\ pc[p] = "exchange"
    /\ reply[p] # Undefined
    /\ Store(p, reply[p].value)
    /\ reply' = [reply EXCEPT ![p] = Undefined]
    /\ arrived' = [data |-> reply[p].value, at |-> now]
    /\ UNCHANGED <<issued, failed>>

\* The authorization server rejects caller p's grant.
Refuse(p) ==
    /\ reply[p] = Undefined
    /\ ExchangeFails(p)

RaceNext ==
    \/ \E p \in Procs : Start(p)
    \/ \E p \in Procs : Reuse(p)
    \/ \E p \in Procs : Exchange(p)
    \/ \E p \in Procs : Authorize(p)
    \/ \E p \in Procs : Deliver(p)
    \/ \E p \in Procs : Refuse(p)
    \/ Elapse(MaxRaceTicks)

RaceSpec == Init /\ [][RaceNext]_vars

(***************************************************************************)
(* runHTTP: the /mcp routes and the session map.  A transport is the SDK's *)
(* StreamableHTTPServerTransport: handling an initialize request gives it  *)
(* a session id from its generator, handling anything else gives it none,  *)
(* and connecting or handling may throw.  The handlers are async: other    *)
(* requests are handled while a POST awaits its transport.                 *)
(***************************************************************************)
\* sessionIdGenerator: () => crypto.randomUUID(), an id never issued before.
SessionIdOf(i) == "s" \o NumStr(i)

\* req.headers["mcp-session-id"]: missing, empty, never issued, or an id
\* the server issues at some moment.
Headers ==
    {Undefined} \cup
    {Defined(x) : x \in {"", "unknown"} \cup {SessionIdOf(i) : i \in 1..MaxTransports}}

\* sessionId && sessions.has(sessionId)
Known(h) == h.defined /\ h.value # "" /\ Has(sessions, h.value)

Answer(method, h, routed, created, status) ==
    [method |-> method, id |-> h, routed |-> routed, created |-> created,
     status |-> status]

\* app.post("/mcp"), up to its first await.
Post(h) ==
    /\ IF Known(h)
       THEN /\ answer' = Answer("POST", h, Defined(sessions[h.value]),
                                Undefined, "transport")
            /\ UNCHANGED transports
       ELSE /\ Len(transports) < MaxTransports
            /\ transports' = Append(transports, [sessionId |-> Undefined,
                                                 state |-> "handling"])
            /\ answer' = Answer("POST", h, Undefined,
                                Defined(Len(transports) + 1), "pending")
    /\ UNCHANGED <<sessions, clientVars, qcall, qsql>>

\* await server.connect(transport); await transport.handleRequest(...)
Connect(i) ==
    /\ i \in 1..Len(transports)
    /\ transports[i].state = "handling"
    /\ \/ transports' = [transports EXCEPT
                            ![i] = [sessionId |-> Defined(SessionIdOf(i)),
                                    state |-> "handled"]]
       \/ transports' = [transports EXCEPT ![i].state = "handled"]
       \/ transports' = [transports EXCEPT ![i].state = "failed"]
    /\ UNCHANGED <<sessions, answer, clientVars, qcall, qsql>>

\* const newSessionId = transport.sessionId;
\* if (newSessionId) sessions.set(newSessionId, { transport, server })
Remember(i) ==
    /\ i \in 1..Len(transports)
    /\ transports[i].state = "handled"
    /\ IF transports[i].sessionId.defined
       THEN /\ sessions' = [k \in DOMAIN sessions \cup {transports[i].sessionId.value}
                                |-> IF k = transports[i].sessionId.value
                                    THEN i ELSE sessions[k]]
            /\ transports' = [transports EXCEPT ![i].state = "stored"]
       ELSE /\ transports' = [transports EXCEPT ![i].state = "dropped"]
            /\ UNCHANGED sessions
    /\ UNCHANGED <<answer, clientVars, qcall, qsql>>

\* app.get("/mcp")
Get(h) ==
    /\ answer' = IF Known(h)
                 THEN Answer("GET", h, Defined(sessions[h.value]), Undefined,
                             "transport")
                 ELSE Answer("GET", h, Undefined, Undefined, "400")
    /\ UNCHANGED <<sessions, transports, clientVars, qcall, qsql>>

\* app.delete("/mcp")
DeleteKeepsEntry(h) ==
    /\ IF Known(h)
       THEN transports' = [transports EXCEPT ![sessions[h.value]].state = "closed"]
       ELSE UNCHANGED transports
    /\ answer' = Answer("DELETE", h, Undefined, Undefined, "200")
    /\ UNCHANGED <<sessions, clientVars, qcall, qsql>>

Delete(h) ==
    /\ IF Known(h)
       THEN /\ transports' = [transports EXCEPT
                                ![sessions[h.value]].state = "closed"]
            /\ sessions' = [k \in DOMAIN sessions \ {h.value} |-> sessions[k]]
       ELSE UNCHANGED <<sessions, transports>>
    /\ answer' = Answer("DELETE", h, Undefined, Undefined, "200")
    /\ UNCHANGED <<clientVars, qcall, qsql>>

HttpNext ==
    \/ \E h \in Headers : Post(h)
    \/ \E i \in 1..MaxTransports : Connect(i)
    \/ \E i \in 1..MaxTransports : Remember(i)
    \/ \E h \in Headers : Get(h)
    \/ \E h \in Headers : Delete(h)

HttpSpec == Init /\ [][HttpNext]_vars

(***************************************************************************)
(* The query builders alone: a list operation is called with one options   *)
(* record of its type, and builds the request it hands to this.api.        *)
(***************************************************************************)
QueryInit ==
    /\ ClientInit
    /\ ServerInit
    /\ \/ \E op \in ListOps : \E options \in OptionsOf(op) :
            qcall = [op |-> op, options |-> options]
       \/ \E params \in ListAccountsParams :
            qcall = [op |-> "queryAccounts", options |-> ListAccountsArgs(params),
                     params |-> params]
    /\ qsql = Undefined

BuildList(op) ==
    /\ qcall.op = op
    /\ qsql = Undefined
    /\ qsql' = BuildQuery(op, qcall.options)
    /\ UNCHANGED qcall
    /\ UNCHANGED <<clientVars, httpVars>>

BuildCustomers == BuildList("queryCustomers")
BuildInvoices == BuildList("queryInvoices")
BuildAccounts == BuildList("queryAccounts")
BuildVendors == BuildList("queryVendors")
BuildBills == BuildList("queryBills")

QueryNext ==
    \/ BuildCustomers
    \/ BuildInvoices
    \/ BuildAccounts
    \/ BuildVendors
    \/ BuildBills

QuerySpec == QueryInit /\ [][QueryNext]_vars

(***************************************************************************)
(* createInvoice alone: it is called with one invoice of at least one line *)
(* item (CreateInvoiceInputSchema) and builds the request it posts.        *)
(***************************************************************************)
\* quantity is any number the schema lets through, zero included, or is
\* left out.
LineItems ==
    {[description |-> "Cleaning", amount |-> a] @@ q :
        a \in {150, 40},
        q \in {Empty} \cup {[quantity |-> n] : n \in 0..MaxQuantity}}

InvoiceInputs ==
    {[customerId |-> "123", lineItems |-> items] @@ d @@ m :
        items \in UNION {[1..n -> LineItems] : n \in 1..MaxItems},
        d \in StrPart("dueDate", {"", "2026-02-28"}),
        m \in StrPart("memo", {"Thanks"})}

InvoiceInit ==
    /\ ClientInit
    /\ ServerInit
    /\ \E data \in InvoiceInputs : qcall = [op |-> "createInvoice", data |-> data]
    /\ qsql = Undefined

BuildInvoice ==
    /\ qcall.op = "createInvoice"
    /\ qsql = Undefined
    /\ qsql' = CreateInvoiceRequest(qcall.data)
    /\ UNCHANGED qcall
    /\ UNCHANGED <<clientVars, httpVars>>

InvoiceNext == BuildInvoice

InvoiceSpec == InvoiceInit /\ [][InvoiceNext]_vars

(***************************************************************************)
(* The report parser alone: getProfitAndLossReport reads one response body *)
(* of the reports endpoint.                                                *)
(***************************************************************************)
SummaryRow(g, cols) == [type |-> "Section", group |-> g, Summary |-> [ColData |-> cols]]

\* The rows of a report: sections with a summary of two columns, the second
\* a number, empty or other text; rows lacking the summary, its columns, the
\* second column or its value; a row matched by type; a null row.
ReportRowSet ==
    {SummaryRow(g, <<[value |-> "Total"], [value |-> v]>>) :
        g \in {"Income", "NetIncome"}, v \in {"10000.00", "", "abc", "12abc"}}
    \cup {SummaryRow("Income", <<[value |-> "Total"]>>),
          SummaryRow("Income", <<[value |-> "Total"], Empty>>),
          [group |-> "Income", Summary |-> Empty],
          [type |-> "Income"],
          Null}

Reports ==
    {Empty, [Rows |-> Empty]}
    \cup {[Rows |-> [Row |-> rows]] :
            rows \in UNION {[1..n -> ReportRowSet] : n \in 0..MaxRows}}

ReportInit ==
    /\ ClientInit
    /\ ServerInit
    /\ \E report \in Reports :
        qcall = [op |-> "getProfitAndLossReport", report |-> report]
    /\ qsql = Undefined

ParseReport ==
    /\ qcall.op = "getProfitAndLossReport"
    /\ qsql = Undefined
    /\ qsql' = ProfitAndLossResult(qcall.report)
    /\ UNCHANGED qcall
    /\ UNCHANGED <<clientVars, httpVars>>

ReportNext == ParseReport

ReportSpec == ReportInit /\ [][ReportNext]_vars

(***************************************************************************)
(* The tool handlers: each calls one operation of the client with options  *)
(* made from its parameters, renders what the operation returned, and      *)
(* catches whatever either of the two throws.                              *)
(***************************************************************************)
\* A JSON number and a JSON string, told apart as typeof does.
JNum(n) == [number |-> n]
JStr(x) == [string |-> x]

\* params.k handed on as option name: no option when params has no k.
Opt(params, k, name) == IF Has(params, k) THEN [x \in {name} |-> params[k]] ELSE Empty

\* The client operation a handler awaits.
ClientCallOf(tool, params) ==
    CASE tool = "qbo_list_customers" ->
            [op |-> "queryCustomers",
             arg |-> [limit |-> params.limit, offset |-> params.offset,
                      activeOnly |-> params.active_only]
                     @@ Opt(params, "search", "search")]
      [] tool = "qbo_list_invoices" ->
            [op |-> "queryInvoices",
             arg |-> [limit |-> params.limit, offset |-> params.offset,
                      status |-> params.status]
                     @@ Opt(params, "customer_id", "customerId")
                     @@ Opt(params, "start_date", "startDate")
                     @@ Opt(params, "end_date", "endDate")]
      [] tool = "qbo_create_invoice" ->
            [op |-> "createInvoice",
             arg |-> [customerId |-> params.customer_id,
                      lineItems |-> params.line_items]
                     @@ Opt(params, "due_date", "dueDate")
                     @@ Opt(params, "memo", "memo")]
      [] tool = "qbo_list_accounts" ->
            [op |-> "queryAccounts", arg |-> ListAccountsArgs(params)]
      [] tool = "qbo_profit_loss_report" ->
            [op |-> "getProfitAndLossReport",
             arg |-> [startDate |-> params.start_date, endDate |-> params.end_date]]
      [] tool = "qbo_list_vendors" ->
            [op |-> "queryVendors",
             arg |-> [limit |-> params.limit, offset |-> params.offset,
                      activeOnly |-> params.active_only]]
      [] tool = "qbo_list_bills" ->
            [op |-> "queryBills",
             arg |-> [limit |-> params.limit, offset |-> params.offset,
                      status |-> params.status]
                     @@ Opt(params, "vendor_id", "vendorId")]

\* The fields a handler formats with (x || 0).toFixed(2).
MoneyFields(tool) ==
    CASE tool \in {"qbo_list_customers", "qbo_list_vendors"} -> {"Balance"}
      [] tool \in {"qbo_list_invoices", "qbo_list_bills"} -> {"TotalAmt", "Balance"}
      [] tool = "qbo_create_invoice" -> {"TotalAmt"}
      [] tool = "qbo_list_accounts" -> {"CurrentBalance"}
      [] tool = "qbo_profit_loss_report" -> {}

\* (x || 0).toFixed(2) throws for an x that is truthy and not a number.
ToFixedThrows(tool, record) ==
    \E k \in MoneyFields(tool) : Has(record, k) /\ ~Has(record[k], "number")

\* The handler's code after the await, up to its return.  What is kept of
\* the text is its format, its title and the number of records it lists.
Render(tool, params, value) ==
    IF tool = "qbo_create_invoice"
    THEN IF ~value.defined
         THEN Failure("Cannot read properties of undefined (reading 'DocNumber')")
         ELSE IF ToFixedThrows(tool, value.value)
         THEN Failure("(invoice.TotalAmt || 0).toFixed is not a function")
         ELSE Value([format |-> "markdown", title |-> "Invoice created successfully!"])
    ELSE IF params.response_format = "json"
    THEN Value([format |-> "json", of |-> value])
    ELSE IF tool = "qbo_profit_loss_report"
    THEN Value([format |-> "markdown", title |-> "# Profit & Loss Report"])
    ELSE IF \E i \in 1..Len(value) : ToFixedThrows(tool, value[i])
    THEN Failure("toFixed is not a function")
    ELSE Value([format |-> "markdown", title |-> "# QuickBooks", found |-> Len(value)])

\* The catch block: `Error: ${message}`, isError: true.
ErrorResult(tool, message) ==
    [content |-> <<IF tool = "qbo_create_invoice"
                   THEN "Error creating invoice: " ELSE "Error: ", message>>,
     isError |-> TRUE]

HandlerRenderUncaught(tool, params, outcome) ==
    IF ~outcome.ok THEN ErrorResult(tool, outcome.error)
    ELSE LET text == Render(tool, params, outcome.value)
         IN IF text.ok THEN [content |-> text.value] ELSE [thrown |-> text.error]

\* handler: try { await client...; render; return } catch { ... }, given
\* how the client's promise settled.
Handler(tool, params, outcome) ==
    IF ~outcome.ok THEN ErrorResult(tool, outcome.error)
    ELSE LET text == Render(tool, params, outcome.value)
         IN IF text.ok THEN [content |-> text.value]
            ELSE ErrorResult(tool, text.error)

\* The parameters a tool hands its handler, defaults filled in by its
\* schema.
ToolParams(tool) ==
    LET page == [limit |-> 100, offset |-> 0]
        formats == {[response_format |-> f] : f \in {"json", "markdown"}}
    IN CASE tool = "qbo_list_customers" ->
                {page @@ f @@ [active_only |-> TRUE] @@ s :
                    f \in formats, s \in StrPart("search", {"Acme"})}
         [] tool = "qbo_list_invoices" ->
                {page @@ f @@ [status |-> "open"] @@ c :
                    f \in formats, c \in StrPart("customer_id", {"123"})}
         [] tool = "qbo_create_invoice" ->
                {[customer_id |-> "123",
                  line_items |-> <<[description |-> "Cleaning", amount |-> 150,
                                    quantity |-> 2]>>] @@ d :
                    d \in StrPart("due_date", {"2026-02-28"})}
         [] tool = "qbo_list_accounts" -> ListAccountsParams
         [] tool = "qbo_profit_loss_report" ->
                {[start_date |-> "2026-01-01", end_date |-> "2026-01-31"] @@ f :
                    f \in formats}
         [] tool = "qbo_list_vendors" ->
                {page @@ f @@ [active_only |-> a] : f \in formats, a \in BOOLEAN}
         [] tool = "qbo_list_bills" ->
                {page @@ f @@ [status |-> "unpaid"] @@ v :
                    f \in formats, v \in StrPart("vendor_id", {"56"})}

\* The records of the remote: each money field a number, a string, or left
\* out.
ToolRecords(tool) ==
    {[Id |-> JStr("7")] @@ m :
        m \in UNION {[fields -> {JNum(250), JStr("12.50")}] :
                        fields \in SUBSET MoneyFields(tool)}}

\* The bodies the remote API answers the handler's operation with.
ToolBodies(tool) ==
    LET c == ClientCallOf(tool, CHOOSE params \in ToolParams(tool) : TRUE)
    IN CASE c.op \in ListOps ->
                {Empty, [QueryResponse |-> Empty]}
                \cup {[QueryResponse |-> [k \in {BuildRequest(c).entity} |-> records]] :
                        records \in UNION {[1..n -> ToolRecords(tool)] :
                                            n \in 1..MaxRecords}}
         [] c.op = "createInvoice" ->
                {Empty} \cup {[Invoice |-> r] : r \in ToolRecords(tool)}
         [] c.op = "getProfitAndLossReport" -> Bodies(c)

\* How the client's promise can settle for the handler.
Outcomes(tool, params) ==
    LET c == ClientCallOf(tool, params)
    IN {Settle(c, OnSuccess(c, body)) : body \in ToolBodies(tool)}
       \cup {OnFailure(c, e) : e \in AuthErrors \cup ApiErrors}

Tools ==
    {"qbo_list_customers", "qbo_list_invoices", "qbo_create_invoice",
     "qbo_list_accounts", "qbo_profit_loss_report", "qbo_list_vendors",
     "qbo_list_bills"}

ToolInit ==
    /\ ClientInit
    /\ ServerInit
    /\ \E tool \in Tools : \E params \in ToolParams(tool) :
       \E outcome \in Outcomes(tool, params) :
            qcall = [op |-> "tool", tool |-> tool, params |-> params,
                     outcome |-> outcome]
    /\ qsql = Undefined

Handle ==
    /\ qcall.op = "tool"
    /\ qsql = Undefined
    /\ qsql' = Handler(qcall.tool, qcall.params, qcall.outcome)
    /\ UNCHANGED qcall
    /\ UNCHANGED <<clientVars, httpVars>>

ToolNext == Handle

ToolSpec == ToolInit /\ [][ToolNext]_vars

(***************************************************************************)
(* queryInvoices against a remote that evaluates the query it receives:    *)
(* the remote keeps invoices, selects those the WHERE clause admits and    *)
(* answers with the page the query asks for.                               *)
(***************************************************************************)
\* The number a numeral of the query stands for.
NumberOf(numeral) == CHOOSE n \in 0..AccountsDefaultLimit : NumStr(n) = numeral

\* The remote's answer to a query over its invoices: the WHERE clause's
\* CustomerRef and Balance predicates select, STARTPOSITION and MAXRESULTS
\* cut the page; the envelope has no array when the page is empty.
RemoteAnswer(ledger, query) ==
    LET admits(inv) ==
            /\ Contains(query, <<"Balance > '0'">>) => inv.Balance > 0
            /\ Contains(query, <<"Balance = '0'">>) => inv.Balance = 0
            /\ \A i \in 1..(Len(query) - 1) :
                    query[i] = "CustomerRef = '" => inv.CustomerRef.value = query[i + 1]
        selected == SelectSeq(ledger, admits)
        start == NumberOf(query[Len(query) - 2])
        max == NumberOf(query[Len(query)])
        last == IF start + max - 1 < Len(selected)
                THEN start + max - 1 ELSE Len(selected)
        page == SubSeq(selected, start, last)
    IN [QueryResponse |-> IF page = <<>> THEN Empty ELSE [Invoice |-> page]]

\* The remote's invoices, each with a balance and a customer; the options
\* are those of queryInvoices, limits small enough to cut a page.
RemoteInit ==
    /\ ClientInit
    /\ ServerInit
    /\ \E n \in 0..MaxLedger :
       \E balance \in [1..n -> {0, 50}] : \E customer \in [1..n -> {"123", "9"}] :
       \E s \in StrPart("status", InvoiceStatuses) :
       \E c \in StrPart("customerId", {"123"}) :
       \E l \in {Empty, [limit |-> 1], [limit |-> 2]} :
       \E o \in {Empty, [offset |-> 1]} :
            qcall = [op |-> "queryInvoices", options |-> s @@ c @@ l @@ o,
                     ledger |-> [i \in 1..n |->
                                    [Id |-> NumStr(i), Balance |-> balance[i],
                                     CustomerRef |-> [value |-> customer[i]]]]]
    /\ qsql = Undefined

\* queryInvoices builds its query, the remote answers it, query returns
\* what it finds in the answer.
ListInvoicesRemote ==
    /\ Has(qcall, "ledger")
    /\ qsql = Undefined
    /\ LET request == QueryInvoices(qcall.options)
           body == RemoteAnswer(qcall.ledger, request.query)
       IN qsql' = [request |-> request, body |-> body,
                   result |-> QueryResult(request.entity, body)]
    /\ UNCHANGED qcall
    /\ UNCHANGED <<clientVars, httpVars>>

RemoteNext == ListInvoicesRemote

RemoteSpec == RemoteInit /\ [][RemoteNext]_vars

(***************************************************************************)
(* The input schema of the list tools: ListCustomersInputSchema.parse      *)
(* applied to the arguments of a tool call.                                *)
(***************************************************************************)
\* A JSON boolean, and the number n + 1/2.
JBool(b) == [boolean |-> b]
JHalf(n) == [number |-> n, half |-> TRUE]

IsNumber(v) == Has(v, "number")

\* z.number().int()
IsInt(v) == Has(v, "number") /\ ~Has(v, "half")

\* z.object({...PaginationSchema.shape, response_format, active_only,
\* search}).strict(): parse returns the typed values with the defaults
\* filled in, or throws.
ListCustomersInputSchema(input) ==
    LET ok(k, good(_)) == Has(input, k) => good(input[k])
    IN IF /\ DOMAIN input \subseteq
                {"limit", "offset", "response_format", "active_only", "search"}
          /\ ok("limit", LAMBDA v : IsInt(v) /\ v.number >= 1
                                    /\ v.number <= MaxLimitAllowed)
          /\ ok("offset", LAMBDA v : IsInt(v) /\ v.number >= 0)
          /\ ok("response_format",
                LAMBDA v : Has(v, "string") /\ v.string \in {"json", "markdown"})
          /\ ok("active_only", LAMBDA v : Has(v, "boolean"))
          /\ ok("search", LAMBDA v : Has(v, "string"))
       THEN Value([limit |-> IF Has(input, "limit")
                             THEN input.limit.number ELSE DefaultLimit,
                   offset |-> IF Has(input, "offset")
                              THEN input.offset.number ELSE DefaultOffset,
                   response_format |-> IF Has(input, "response_format")
                                       THEN input.response_format.string
                                       ELSE "markdown",
                   active_only |-> IF Has(input, "active_only")
                                   THEN input.active_only.boolean ELSE TRUE]
                  @@ (IF Has(input, "search")
                      THEN [search |-> input.search.string] ELSE Empty))
       ELSE Failure("ZodError")

\* The arguments of a call: each key left out, or given a value of the
\* right or of a wrong type, inside or outside its range; page is a key the
\* schema does not know.
SchemaInit ==
    /\ ClientInit
    /\ ServerInit
    /\ \E l \in StrPart("limit", {JNum(0), JNum(1), JNum(50), JNum(MaxLimitAllowed),
                                  JNum(MaxLimitAllowed + 1), JHalf(1), JStr("50")}) :
       \E o \in StrPart("offset", {JNum(-1), JNum(0), JNum(10), JHalf(0)}) :
       \E f \in StrPart("response_format",
                        {JStr("json"), JStr("markdown"), JStr("xml"), JNum(1)}) :
       \E a \in StrPart("active_only", {JBool(TRUE), JBool(FALSE), JStr("true")}) :
       \E s \in StrPart("search", {JStr("Test Company"), JNum(5)}) :
       \E u \in StrPart("page", {JNum(1)}) :
            qcall = [op |-> "parse", input |-> l @@ o @@ f @@ a @@ s @@ u]
    /\ qsql = Undefined

ParseInput ==
    /\ qcall.op = "parse"
    /\ qsql = Undefined
    /\ qsql' = ListCustomersInputSchema(qcall.input)
    /\ UNCHANGED qcall
    /\ UNCHANGED <<clientVars, httpVars>>

SchemaNext == ParseInput

SchemaSpec == SchemaInit /\ [][SchemaNext]_vars

(***************************************************************************)
(* Properties of the query builders (checked under QuerySpec).             *)
(***************************************************************************)
Built == qsql # Undefined

EndsWith(s, sub) ==
    /\ Len(s) >= Len(sub)
    /\ SubSeq(s, Len(s) - Len(sub) + 1, Len(s)) = sub

\* The decimal numerals, written out.
Numerals ==
    <<"0", "1", "2", "3", "4", "5", "6", "7", "8", "9", "10", "11", "12", "13",
      "14", "15", "16", "17", "18", "19", "20">>
Numeral(n) == Numerals[n + 1]

\* C5: a list operation called with limit L and offset O sends a query
\* that contains STARTPOSITION <O+1> MAXRESULTS <L>.
C5_PaginationFromOptions ==
    (Built /\ Has(qcall.options, "limit") /\ Has(qcall.options, "offset")) =>
        Contains(qsql.query,
                 <<" STARTPOSITION ", Numeral(qcall.options.offset + 1),
                   " MAXRESULTS ", Numeral(qcall.options.limit)>>)

C5_Witness ==
    /\ Built
    /\ qcall.op = "queryBills"
    /\ Has(qcall.options, "limit") /\ qcall.options.limit = 10
    /\ Has(qcall.options, "offset") /\ qcall.options.offset = 2

\* C6 as stated: with neither limit nor offset supplied, every list
\* operation's query ends with STARTPOSITION 1 MAXRESULTS 100.
C6_DefaultsEverywhere ==
    (Built /\ ~Has(qcall.options, "limit") /\ ~Has(qcall.options, "offset")) =>
        EndsWith(qsql.query, <<" STARTPOSITION ", "1", " MAXRESULTS ", "100">>)

\* C6 amended: with neither limit nor offset supplied the query ends with
\* STARTPOSITION 1 MAXRESULTS 100 for queryCustomers, queryInvoices,
\* queryVendors and queryBills, and with STARTPOSITION 1 MAXRESULTS 1000 for
\* queryAccounts.
C6_Defaults ==
    (Built /\ ~Has(qcall.options, "limit") /\ ~Has(qcall.options, "offset")) =>
        EndsWith(qsql.query,
                 <<" STARTPOSITION ", "1", " MAXRESULTS ",
                   IF qcall.op = "queryAccounts" THEN "1000" ELSE "100">>)

C6_Witness ==
    /\ Built
    /\ qcall.op = "queryAccounts"
    /\ ~Has(qcall.options, "limit") /\ ~Has(qcall.options, "offset")

\* C7: the query of queryCustomers and queryVendors contains the predicate
\* Active = true exactly when activeOnly is unset or true.
C7_ActiveOnly ==
    (Built /\ qcall.op \in {"queryCustomers", "queryVendors"}) =>
        (Contains(qsql.query, <<"Active = true">>)
            <=> (~Has(qcall.options, "activeOnly") \/ qcall.options.activeOnly))

C7_Witness ==
    /\ Built
    /\ qcall.op = "queryVendors"
    /\ Has(qcall.options, "activeOnly") /\ ~qcall.options.activeOnly
    /\ ~Contains(qsql.query, <<"Active = true">>)

\* C8 as stated: for every search term T passed to queryCustomers the query
\* contains DisplayName LIKE '%T%' with T unchanged.
C8_SearchAlways ==
    (Built /\ qcall.op = "queryCustomers" /\ Has(qcall.options, "search")) =>
        Contains(qsql.query, <<"DisplayName LIKE '%", qcall.options.search, "%'">>)

\* C8 amended: for every non-empty search term T passed to queryCustomers,
\* one with a single quote included, the query contains DisplayName LIKE
\* '%T%' with T unchanged; for the empty term, as for none, the query has no
\* DisplayName predicate.
C8_Search ==
    (Built /\ qcall.op = "queryCustomers") =>
        IF Has(qcall.options, "search") /\ qcall.options.search # ""
        THEN Contains(qsql.query,
                      <<"DisplayName LIKE '%", qcall.options.search, "%'">>)
        ELSE ~Contains(qsql.query, <<"DisplayName LIKE '%">>)

C8_Witness ==
    /\ Built
    /\ qcall.op = "queryCustomers"
    /\ Has(qcall.options, "search") /\ qcall.options.search = "O'Brien"
    /\ Contains(qsql.query, <<"DisplayName LIKE '%", "O'Brien", "%'">>)

\* The text the claim gives for queryInvoices: the predicates in the order
\* customer, balance, start, end, joined by AND after WHERE, then the
\* pagination clause.  present(k) says when option k yields its predicate.
InvoiceText(o, present(_)) ==
    LET preds ==
            (IF present("customerId")
             THEN <<"CustomerRef = '" \o o.customerId \o "'">> ELSE <<>>)
            \o (IF Has(o, "status") /\ o.status = "open"
                THEN <<"Balance > '0'">> ELSE <<>>)
            \o (IF Has(o, "status") /\ o.status = "paid"
                THEN <<"Balance = '0'">> ELSE <<>>)
            \o (IF present("startDate")
                THEN <<"TxnDate >= '" \o o.startDate \o "'">> ELSE <<>>)
            \o (IF present("endDate")
                THEN <<"TxnDate <= '" \o o.endDate \o "'">> ELSE <<>>)
        where ==
            CASE Len(preds) = 0 -> ""
              [] Len(preds) = 1 -> " WHERE " \o preds[1]
              [] Len(preds) = 2 -> " WHERE " \o preds[1] \o " AND " \o preds[2]
              [] Len(preds) = 3 ->
                    " WHERE " \o preds[1] \o " AND " \o preds[2] \o " AND " \o preds[3]
              [] Len(preds) = 4 ->
                    " WHERE " \o preds[1] \o " AND " \o preds[2] \o " AND " \o preds[3]
                    \o " AND " \o preds[4]
    IN "SELECT * FROM Invoice" \o where
       \o " STARTPOSITION "
       \o (IF Has(o, "offset") THEN Numeral(o.offset + 1) ELSE "1")
       \o " MAXRESULTS "
       \o (IF Has(o, "limit") THEN Numeral(o.limit) ELSE "100")

InvoiceExample ==
    (Built /\ qcall.op = "queryInvoices"
        /\ qcall.options = [customerId |-> "123", status |-> "open",
                            limit |-> 10, offset |-> 0]) =>
        Flatten(qsql.query) =
            "SELECT * FROM Invoice WHERE CustomerRef = '123' AND Balance > '0' STARTPOSITION 1 MAXRESULTS 10"

\* C9 as stated: queryInvoices emits CustomerRef, Balance, TxnDate >= and
\* TxnDate <= predicates in that order, each present exactly when its option
\* is supplied.
C9_InvoiceWhenSupplied ==
    (Built /\ qcall.op = "queryInvoices") =>
        /\ Flatten(qsql.query) =
                InvoiceText(qcall.options, LAMBDA k : Has(qcall.options, k))
        /\ InvoiceExample

\* C9 amended: queryInvoices emits CustomerRef, Balance, TxnDate >= and
\* TxnDate <= predicates in that order, the Balance predicate for status
\* open or paid and each of the others exactly when its option is supplied
\* with a non-empty value; the example yields exactly the query given.
C9_Invoice ==
    (Built /\ qcall.op = "queryInvoices") =>
        /\ Flatten(qsql.query) =
                InvoiceText(qcall.options,
                            LAMBDA k : Has(qcall.options, k) /\ qcall.options[k] # "")
        /\ InvoiceExample

C9_Witness ==
    /\ Built
    /\ qcall.op = "queryInvoices"
    /\ qcall.options = [customerId |-> "123", status |-> "open",
                        limit |-> 10, offset |-> 0]
    /\ Len(qsql.query) > 0

\* C10: for queryInvoices, status overdue adds no predicate: the query is
\* the one generated for status all and for no status, the other options
\* being the same.
C10_OverdueAddsNothing ==
    (Built /\ qcall.op = "queryInvoices" /\ Has(qcall.options, "status")
        /\ qcall.options.status = "overdue") =>
        LET others == [k \in DOMAIN qcall.options \ {"status"} |-> qcall.options[k]]
        IN /\ qsql = QueryInvoices([status |-> "all"] @@ others)
           /\ qsql = QueryInvoices(others)
           /\ ~Contains(qsql.query, <<"Balance > '0'">>)
           /\ ~Contains(qsql.query, <<"Balance = '0'">>)

C10_Witness ==
    /\ Built
    /\ qcall.op = "queryInvoices"
    /\ Has(qcall.options, "status") /\ qcall.options.status = "overdue"
    /\ Has(qcall.options, "customerId") /\ qcall.options.customerId = "123"

\* C11: the query of queryAccounts has Active = true as its first
\* predicate, followed by AccountType = '<type>' exactly when an account
\* type is supplied; qbo_list_accounts supplies none for account_type all
\* and the type it was given otherwise.
C11_Accounts ==
    (Built /\ qcall.op = "queryAccounts") =>
        LET o == qcall.options
        IN /\ Flatten(qsql.query) =
                "SELECT * FROM Account WHERE Active = true"
                \o (IF Has(o, "accountType")
                    THEN " AND AccountType = '" \o o.accountType \o "'" ELSE "")
                \o " STARTPOSITION "
                \o (IF Has(o, "offset") THEN Numeral(o.offset + 1) ELSE "1")
                \o " MAXRESULTS "
                \o (IF Has(o, "limit") THEN Numeral(o.limit) ELSE "1000")
           /\ Has(qcall, "params") =>
                IF qcall.params.account_type = "all"
                THEN ~Has(o, "accountType")
                     /\ ~Contains(qsql.query, <<"AccountType = '">>)
                ELSE Has(o, "accountType")
                     /\ o.accountType = qcall.params.account_type

C11_Witness ==
    /\ Built
    /\ Has(qcall, "params")
    /\ qcall.params.account_type = "all"
    /\ Flatten(qsql.query) =
            "SELECT * FROM Account WHERE Active = true STARTPOSITION 1 MAXRESULTS 1000"

\* The text the claim gives for queryBills: the vendor predicate, then the
\* balance predicate, joined by AND after WHERE, then the pagination clause.
\* vendor says when the vendor id yields its predicate.
BillText(o, vendor) ==
    LET preds ==
            (IF vendor THEN <<"VendorRef = '" \o o.vendorId \o "'">> ELSE <<>>)
            \o (IF Has(o, "status") /\ o.status = "unpaid"
                THEN <<"Balance > '0'">> ELSE <<>>)
            \o (IF Has(o, "status") /\ o.status = "paid"
                THEN <<"Balance = '0'">> ELSE <<>>)
        where ==
            CASE Len(preds) = 0 -> ""
              [] Len(preds) = 1 -> " WHERE " \o preds[1]
              [] Len(preds) = 2 -> " WHERE " \o preds[1] \o " AND " \o preds[2]
    IN "SELECT * FROM Bill" \o where
       \o " STARTPOSITION "
       \o (IF Has(o, "offset") THEN Numeral(o.offset + 1) ELSE "1")
       \o " MAXRESULTS "
       \o (IF Has(o, "limit") THEN Numeral(o.limit) ELSE "100")

\* C12 as stated: queryBills emits VendorRef = '<id>' exactly when a vendor
\* id is supplied, followed by Balance > '0' for status unpaid or Balance =
\* '0' for status paid, and no Balance predicate for status all or unset.
C12_BillsWhenSupplied ==
    (Built /\ qcall.op = "queryBills") =>
        Flatten(qsql.query) = BillText(qcall.options, Has(qcall.options, "vendorId"))

\* C12 amended: queryBills emits VendorRef = '<id>' exactly when a non-empty
\* vendor id is supplied, followed by Balance > '0' for status unpaid or
\* Balance = '0' for status paid, and no Balance predicate for status all
\* or unset.
C12_Bills ==
    (Built /\ qcall.op = "queryBills") =>
        Flatten(qsql.query) =
            BillText(qcall.options,
                     Has(qcall.options, "vendorId") /\ qcall.options.vendorId # "")

C12_Witness ==
    /\ Built
    /\ qcall.op = "queryBills"
    /\ qcall.options = [vendorId |-> "56", status |-> "unpaid"]
    /\ Flatten(qsql.query) =
            "SELECT * FROM Bill WHERE VendorRef = '56' AND Balance > '0' STARTPOSITION 1 MAXRESULTS 100"

(***************************************************************************)
(* Properties of the token cache and the interceptor, for operations       *)
(* invoked one after the other (checked under Spec).                       *)
(***************************************************************************)
\* A token is cached and its expiry instant has not been reached at the
\* moment getAccessToken looked.
CachedUsable(c) == c.accessToken # "" /\ c.time < c.tokenExpiry

\* C1: a successful exchange's access token is cached; an operation that
\* finds the cached expiry instant not yet reached reuses the token without
\* an exchange; one that finds it reached (or nothing cached) issues exactly
\* one exchange, as does the first operation after construction.
C1_CacheAndLazyRefresh ==
    /\ accessToken = (IF lastResp = Undefined THEN "" ELSE lastResp.access_token)
    /\ \A p \in Procs :
        chk[p] # Undefined =>
            /\ CachedUsable(chk[p]) =>
                    /\ nExch[p] = 0
                    /\ token[p] = Defined(chk[p].accessToken)
                    /\ chk[p].accessToken = lastResp.access_token
            /\ ~CachedUsable(chk[p]) => nExch[p] = 1
            /\ first[p] => nExch[p] = 1

C1_Witness ==
    \E p \in Procs :
        /\ pc[p] = "inflight"
        /\ ~first[p]
        /\ nExch[p] = 0
        /\ chk[p].time > MsPerSec
        /\ chk[p].tokenExpiry = chk[p].time + MsPerSec

\* C2: after a successful exchange answering {access_token: A,
\* refresh_token: R, ...}, the request that triggered it and the later ones
\* carry Authorization: Bearer A and the stored refresh token is R; without
\* an R in the response the stored refresh token keeps its previous value.
C2_ExchangeStored ==
    lastResp # Undefined =>
        /\ config.refreshToken =
                (IF lastResp.refresh_token.defined
                 THEN lastResp.refresh_token.value ELSE lastResp.previous)
        /\ \A p \in Procs :
            wire[p] # Undefined =>
                wire[p].headers.Authorization = <<"Bearer ", lastResp.access_token>>

C2_Witness ==
    /\ lastResp # Undefined
    /\ lastResp.access_token = "abc"
    /\ lastResp.refresh_token = Defined("xyz")
    /\ config.refreshToken = "xyz"
    /\ \E p \in Procs :
        /\ pc[p] = "inflight"
        /\ nExch[p] = 0
        /\ Flatten(wire[p].headers.Authorization) = "Bearer abc"

\* C3: every request sent through this.api was preceded by getAccessToken
\* and carries Authorization: Bearer <t>, t being the value getAccessToken
\* returned for that request; nothing is sent without the header.
C3_BearerOnEveryRequest ==
    \A p \in Procs :
        /\ (nReq[p] > 0) <=> (wire[p] # Undefined)
        /\ pc[p] = "inflight" => wire[p] # Undefined
        /\ wire[p] # Undefined =>
            /\ chk[p] # Undefined
            /\ token[p].defined
            /\ Has(wire[p], "headers") /\ Has(wire[p].headers, "Authorization")
            /\ wire[p].headers.Authorization = <<"Bearer ", token[p].value>>
            /\ wire[p].method = req[p].method /\ wire[p].url = req[p].url

C3_Witness ==
    \E p \in Procs :
        /\ pc[p] = "inflight"
        /\ call[p].op = "createInvoice"
        /\ wire[p].method = "POST"
        /\ nExch[p] = 1
        /\ Flatten(wire[p].headers.Authorization) = "Bearer def"

\* C4 as stated: when the exchange fails, the operation that triggered it
\* fails with that error after exactly one exchange attempt, and its API
\* request is never sent.
C4_ExchangeFailureFailsOperation ==
    \A p \in Procs :
        authErr[p].defined =>
            /\ result[p] = Failure(authErr[p].value)
            /\ nExch[p] = 1
            /\ nReq[p] = 0 /\ wire[p] = Undefined

\* C4 amended: when the exchange fails, exactly one exchange was attempted
\* and the API request is never sent; the operation fails with that error,
\* except getCustomer, which returns null.
C4_ExchangeFailure ==
    \A p \in Procs :
        authErr[p].defined =>
            /\ result[p] = (IF call[p].op = "getCustomer"
                            THEN Value(Null) ELSE Failure(authErr[p].value))
            /\ nExch[p] = 1
            /\ nReq[p] = 0 /\ wire[p] = Undefined
            /\ pc[p] = "settled"

C4_Witness ==
    \E p \in Procs :
        /\ authErr[p] = Defined("invalid_grant")
        /\ call[p].op = "queryCustomers"
        /\ result[p] = Failure("invalid_grant")

(***************************************************************************)
(* Properties of what the operations return (checked under Spec).          *)
(***************************************************************************)
\* The entity kind a list operation asks for.
EntityOf(op) ==
    CASE op = "queryCustomers" -> "Customer"
      [] op = "queryInvoices" -> "Invoice"
      [] op = "queryAccounts" -> "Account"
      [] op = "queryVendors" -> "Vendor"
      [] op = "queryBills" -> "Bill"

\* Caller p's list operation got a success status from the remote API.
ListAnswered(p) ==
    /\ pc[p] = "settled"
    /\ call[p].op \in ListOps
    /\ resp[p] # Undefined /\ resp[p].ok

\* The array under the entity-kind name, wherever the body keeps it.
HasArray(body, kind) ==
    Has(body, "QueryResponse") /\ Has(body.QueryResponse, kind)

\* C13 as stated: a list operation returns the array stored under the
\* entity-kind name in the response envelope, in the remote's order, and
\* the empty sequence, without failing, whenever that array is absent from
\* a successful response.
C13_EmptyWheneverAbsent ==
    \A p \in Procs :
        ListAnswered(p) =>
            LET kind == EntityOf(call[p].op)
                body == resp[p].value
            IN result[p] = Value(IF HasArray(body, kind)
                                 THEN body.QueryResponse[kind] ELSE <<>>)

\* C13 amended: a list operation returns the array stored under the
\* entity-kind name in the QueryResponse envelope, in the remote's order,
\* and the empty sequence whenever the envelope is there without that
\* array; a successful response without the envelope makes it fail with a
\* TypeError.
C13_ListResult ==
    \A p \in Procs :
        ListAnswered(p) =>
            LET kind == EntityOf(call[p].op)
                body == resp[p].value
            IN IF Has(body, "QueryResponse")
               THEN result[p] = Value(IF HasArray(body, kind)
                                      THEN body.QueryResponse[kind] ELSE <<>>)
               ELSE result[p] = Failure("TypeError")

C13_Witness ==
    \E p \in Procs :
        /\ ListAnswered(p)
        /\ call[p].op = "queryVendors"
        /\ resp[p].value = [QueryResponse |-> [Vendor |-> <<"r2", "r1">>]]
        /\ result[p] = Value(<<"r2", "r1">>)

\* Caller p's operation met a failure: of the token exchange, or of the
\* API request (an error status or a network error).
LookupFailed(p) ==
    \/ authErr[p].defined
    \/ resp[p] # Undefined /\ ~resp[p].ok

\* C14: getCustomer never fails: it returns null for every failure of the
\* lookup (error status, network error, failed token exchange) and the
\* remote's Customer record otherwise.
C14_GetCustomerNeverFails ==
    \A p \in Procs :
        (call[p] # Undefined /\ call[p].op = "getCustomer") =>
            /\ result[p] # Undefined => result[p].ok
            /\ pc[p] = "settled" =>
                IF LookupFailed(p)
                THEN result[p] = Value(Null)
                ELSE result[p] = Value(Defined(resp[p].value.Customer))

C14_Witness ==
    \E p \in Procs :
        /\ pc[p] = "settled"
        /\ call[p].op = "getCustomer"
        /\ resp[p] = Failure("ECONNRESET")
        /\ result[p] = Value(Null)

(***************************************************************************)
(* Properties of the invoice createInvoice posts (checked under            *)
(* InvoiceSpec).                                                           *)
(***************************************************************************)
\* C15: createInvoice maps line item i (1-based, in input order) to a sales
\* line with Id = i, DetailType = SalesItemLineDetail, UnitPrice = amount,
\* Qty = quantity and Amount = amount * quantity for every supplied
\* quantity; a line item with no quantity gets Qty = 1 and Amount = amount;
\* amount 150 with quantity 2 gives Amount 300.
C15_LineMapping ==
    (Built /\ qcall.op = "createInvoice") =>
        LET items == qcall.data.lineItems
            lines == qsql.body.Line
        IN /\ Len(lines) = Len(items)
           /\ \A i \in 1..Len(items) :
                /\ lines[i].Id = Numeral(i)
                /\ lines[i].DetailType = "SalesItemLineDetail"
                /\ lines[i].Description = items[i].description
                /\ lines[i].SalesItemLineDetail.UnitPrice = items[i].amount
                /\ IF Has(items[i], "quantity")
                   THEN /\ lines[i].SalesItemLineDetail.Qty = items[i].quantity
                        /\ lines[i].Amount = items[i].amount * items[i].quantity
                   ELSE /\ lines[i].SalesItemLineDetail.Qty = 1
                        /\ lines[i].Amount = items[i].amount
                /\ (items[i].amount = 150 /\ Has(items[i], "quantity")
                        /\ items[i].quantity = 2) => lines[i].Amount = 300

\* What holds of the code: the same mapping with a quantity of 0 treated as
\* no quantity (Qty = 1, Amount = amount).
C15_LineMappingZeroAsNone ==
    (Built /\ qcall.op = "createInvoice") =>
        LET items == qcall.data.lineItems
            lines == qsql.body.Line
        IN /\ Len(lines) = Len(items)
           /\ \A i \in 1..Len(items) :
                /\ lines[i].Id = Numeral(i)
                /\ lines[i].DetailType = "SalesItemLineDetail"
                /\ lines[i].Description = items[i].description
                /\ lines[i].SalesItemLineDetail.UnitPrice = items[i].amount
                /\ IF Has(items[i], "quantity") /\ items[i].quantity # 0
                   THEN /\ lines[i].SalesItemLineDetail.Qty = items[i].quantity
                        /\ lines[i].Amount = items[i].amount * items[i].quantity
                   ELSE /\ lines[i].SalesItemLineDetail.Qty = 1
                        /\ lines[i].Amount = items[i].amount

C15_Witness ==
    /\ Built
    /\ qcall.op = "createInvoice"
    /\ qcall.data.lineItems =
            <<[description |-> "Cleaning", amount |-> 150, quantity |-> 0]>>
    /\ qsql.body.Line[1].Amount = 150
    /\ qsql.body.Line[1].SalesItemLineDetail.Qty = 1

(***************************************************************************)
(* Properties of the report parser (checked under ReportSpec).             *)
(***************************************************************************)
\* The rows of the report that was read: none without Rows.Row.
RowsRead ==
    IF Has(qcall.report, "Rows") /\ Has(qcall.report.Rows, "Row")
    THEN qcall.report.Rows.Row ELSE <<>>

\* The rows whose type or group equals discriminator d.
Matching(d) ==
    {i \in 1..Len(RowsRead) :
        /\ RowsRead[i] # Null
        /\ \/ Has(RowsRead[i], "type") /\ RowsRead[i].type = d
           \/ Has(RowsRead[i], "group") /\ RowsRead[i].group = d}

FirstMatching(d) == RowsRead[CHOOSE i \in Matching(d) : \A j \in Matching(d) : i <= j]

\* Row r has a value in the second column of its summary.
HasColumnValue(r) ==
    /\ Has(r, "Summary") /\ Has(r.Summary, "ColData")
    /\ Len(r.Summary.ColData) >= 2
    /\ Has(r.Summary.ColData[2], "value")

\* The total for discriminator d, given which texts count as a number and
\* the number each of them stands for.
TotalFor(d, numeric, number(_)) ==
    IF Matching(d) = {} THEN 0
    ELSE IF ~HasColumnValue(FirstMatching(d)) THEN 0
    ELSE LET v == FirstMatching(d).Summary.ColData[2].value
         IN IF v \in numeric THEN number(v) ELSE 0

Totals(numeric, number(_)) ==
    [totalIncome |-> TotalFor("Income", numeric, number),
     totalCOGS |-> TotalFor("COGS", numeric, number),
     grossProfit |-> TotalFor("GrossProfit", numeric, number),
     totalExpenses |-> TotalFor("Expenses", numeric, number),
     netIncome |-> TotalFor("NetIncome", numeric, number)]

\* The number a text stands for, or that it starts with.
NumberIn(v) ==
    CASE v = "10000.00" -> 10000
      [] v = "12abc" -> 12

\* C16 as stated: each of the five totals is the number parsed from the
\* second summary column of the first row whose type or group equals its
\* discriminator, and 0 when no row matches, when that row has no such
\* value or when the value is not numeric; the operation never fails
\* because of a missing or malformed row.
C16_TotalsNeverFail ==
    (Built /\ qcall.op = "getProfitAndLossReport") =>
        qsql = Value(Totals({"10000.00"}, NumberIn))

\* C16 amended: each of the five totals is the number parseFloat reads from
\* the second summary column of the first row whose type or group equals
\* its discriminator, the leading number of a value that goes on with
\* other text included (12abc gives 12), and 0 when no row matches, when
\* that row has no such value or when the value does not start with a
\* number; rows lacking the summary, its columns or the value do not make
\* the operation fail, a null row among those find visits does.
C16_Totals ==
    (Built /\ qcall.op = "getProfitAndLossReport") =>
        IF \E i \in 1..Len(RowsRead) : RowsRead[i] = Null
        THEN qsql = Failure("TypeError")
        ELSE qsql = Value(Totals({"10000.00", "12abc"}, NumberIn))

C16_Witness ==
    /\ Built
    /\ qcall.op = "getProfitAndLossReport"
    /\ Len(RowsRead) = 2
    /\ RowsRead[1] = [type |-> "Income"]
    /\ RowsRead[2] = SummaryRow("Income", <<[value |-> "Total"], [value |-> "10000.00"]>>)
    /\ qsql.ok /\ qsql.value.totalIncome = 0

(***************************************************************************)
(* Properties of failures in the client (checked under Spec).              *)
(***************************************************************************)
\* C17: an invocation of a list operation, createInvoice or
\* getProfitAndLossReport issues at most one token exchange and at most one
\* API request; when either fails the operation fails with that error:
\* nothing is sent again and no empty or default result is returned.
C17_NoRetryNoDefault ==
    \A p \in Procs :
        (call[p] # Undefined /\ call[p].op # "getCustomer") =>
            /\ nExch[p] <= 1
            /\ nReq[p] <= 1
            /\ authErr[p].defined =>
                /\ pc[p] = "settled"
                /\ result[p] = Failure(authErr[p].value)
                /\ nReq[p] = 0
            /\ (resp[p] # Undefined /\ ~resp[p].ok) =>
                /\ pc[p] = "settled"
                /\ result[p] = Failure(resp[p].error)

C17_Witness ==
    \E p \in Procs :
        /\ pc[p] = "settled"
        /\ call[p].op = "getProfitAndLossReport"
        /\ nExch[p] = 1 /\ nReq[p] = 1
        /\ resp[p] = Failure("401")
        /\ result[p] = Failure("401")

(***************************************************************************)
(* Properties of the tool handlers (checked under ToolSpec).               *)
(***************************************************************************)
\* The message of the error the handler met, if it met one: the client's,
\* or the one thrown while rendering.
ErrorMet ==
    IF ~qcall.outcome.ok THEN Defined(qcall.outcome.error)
    ELSE LET text == Render(qcall.tool, qcall.params, qcall.outcome.value)
         IN IF text.ok THEN Undefined ELSE Defined(text.error)

\* C18: no tool handler throws: when the client call or the rendering
\* fails it returns isError = true with a text that contains the error's
\* message, and a result without isError otherwise.
C18_HandlersNeverThrow ==
    (Built /\ qcall.op = "tool") =>
        /\ Has(qsql, "content")
        /\ ~Has(qsql, "thrown")
        /\ IF ErrorMet.defined
           THEN /\ Has(qsql, "isError") /\ qsql.isError
                /\ Contains(qsql.content, <<ErrorMet.value>>)
           ELSE ~Has(qsql, "isError")

C18_Witness ==
    /\ Built
    /\ qcall.op = "tool"
    /\ qcall.tool = "qbo_list_bills"
    /\ qcall.outcome.ok
    /\ qcall.params.response_format = "markdown"
    /\ ErrorMet.defined
    /\ qsql.isError
    /\ Flatten(qsql.content) = "Error: toFixed is not a function"

(***************************************************************************)
(* Properties of queryInvoices against an evaluating remote (checked       *)
(* under RemoteSpec).                                                      *)
(***************************************************************************)
\* The records of the remote's answer.
Answered ==
    IF Has(qsql.body.QueryResponse, "Invoice")
    THEN qsql.body.QueryResponse.Invoice ELSE <<>>

\* C19: against a remote that evaluates the query, queryInvoices with
\* status open returns only records with Balance > 0 and with status paid
\* only records with Balance = 0; what it returns is what the remote
\* answered, no record added and none dropped.
C19_StatusFilter ==
    (Built /\ Has(qcall, "ledger")) =>
        /\ qsql.result = Value(Answered)
        /\ \A i \in 1..Len(qsql.result.value) :
            /\ \E j \in 1..Len(qcall.ledger) : qsql.result.value[i] = qcall.ledger[j]
            /\ (Has(qcall.options, "status") /\ qcall.options.status = "open")
                    => qsql.result.value[i].Balance > 0
            /\ (Has(qcall.options, "status") /\ qcall.options.status = "paid")
                    => qsql.result.value[i].Balance = 0

C19_Witness ==
    /\ Built
    /\ Has(qcall, "ledger")
    /\ Len(qcall.ledger) = 3
    /\ qcall.ledger[1].Balance = 0 /\ qcall.ledger[2].Balance = 50
    /\ qcall.ledger[3].Balance = 50
    /\ qcall.options = [status |-> "open"]
    /\ Len(qsql.result.value) = 2
    /\ qsql.result.value[1].Id = "2" /\ qsql.result.value[2].Id = "3"

(***************************************************************************)
(* Properties of the list tools' input schema (checked under SchemaSpec).  *)
(***************************************************************************)
\* Key k of the arguments is left out or holds one of the values good.
AbsentOr(k, good) == Has(qcall.input, k) => qcall.input[k] \in good

\* C20: the schema accepts limit only as an integer in 1..1000 (default
\* 100) and offset only as an integer >= 0 (default 0), defaults
\* active_only to true and response_format to markdown, rejects limit 0,
\* limit 1001, a negative offset, a response_format outside {json,
\* markdown} and any unknown key, and returns accepted values unchanged.
C20_ListSchema ==
    (Built /\ qcall.op = "parse") =>
        LET in == qcall.input
            out == qsql.value
        IN /\ qsql.ok <=>
                /\ AbsentOr("limit", {JNum(1), JNum(50), JNum(1000)})
                /\ AbsentOr("offset", {JNum(0), JNum(10)})
                /\ AbsentOr("response_format", {JStr("json"), JStr("markdown")})
                /\ AbsentOr("active_only", {JBool(TRUE), JBool(FALSE)})
                /\ AbsentOr("search", {JStr("Test Company")})
                /\ ~Has(in, "page")
           /\ qsql.ok =>
                /\ out.limit = (IF Has(in, "limit") THEN in.limit.number ELSE 100)
                /\ out.offset = (IF Has(in, "offset") THEN in.offset.number ELSE 0)
                /\ out.response_format =
                        (IF Has(in, "response_format")
                         THEN in.response_format.string ELSE "markdown")
                /\ out.active_only =
                        (IF Has(in, "active_only") THEN in.active_only.boolean ELSE TRUE)
                /\ Has(out, "search") <=> Has(in, "search")
                /\ Has(in, "search") => out.search = in.search.string
                /\ DOMAIN out \subseteq {"limit", "offset", "response_format",
                                        "active_only", "search"}

C20_Witness ==
    /\ Built
    /\ qcall.op = "parse"
    /\ qcall.input = [limit |-> JNum(50), offset |-> JNum(10),
                      response_format |-> JStr("json"),
                      active_only |-> JBool(FALSE),
                      search |-> JStr("Test Company")]
    /\ qsql = Value([limit |-> 50, offset |-> 10, response_format |-> "json",
                     active_only |-> FALSE, search |-> "Test Company"])

(***************************************************************************)
(* The shape of every generated query (checked under QuerySpec).           *)
(***************************************************************************)
\* How often the piece x stands in the pieces-sequence s.
Count(s, x) == Cardinality({i \in 1..Len(s) : s[i] = x})

\* The number of predicates an operation generates for its options.
Supplied(o, k) == IF Has(o, k) /\ o[k] # "" THEN 1 ELSE 0
Wanted(o) == IF Has(o, "activeOnly") /\ o.activeOnly = FALSE THEN 0 ELSE 1
Chosen(o, values) == IF Has(o, "status") /\ o.status \in values THEN 1 ELSE 0

Predicates(op, o) ==
    CASE op = "queryCustomers" -> Wanted(o) + Supplied(o, "search")
      [] op = "queryInvoices" ->
            Supplied(o, "customerId") + Chosen(o, {"open", "paid"})
            + Supplied(o, "startDate") + Supplied(o, "endDate")
      [] op = "queryAccounts" -> 1 + Supplied(o, "accountType")
      [] op = "queryVendors" -> Wanted(o)
      [] op = "queryBills" ->
            Supplied(o, "vendorId") + Chosen(o, {"unpaid", "paid"})

\* C29: for every list operation and every combination of options the query
\* is SELECT * FROM <Entity>, then WHERE iff at least one predicate was
\* generated, the n predicates joined by exactly n-1 " AND ", then always
\* one STARTPOSITION/MAXRESULTS clause as the final element.
C29_QueryShape ==
    Built =>
        LET q == qsql.query
            n == Predicates(qcall.op, qcall.options)
        IN  /\ SubSeq(q, 1, 2) = <<"SELECT * FROM ", EntityOf(qcall.op)>>
            /\ Count(q, "SELECT * FROM ") = 1
            /\ Count(q, " WHERE ") = (IF n > 0 THEN 1 ELSE 0)
            /\ n > 0 => q[3] = " WHERE "
            /\ Count(q, " AND ") = (IF n > 0 THEN n - 1 ELSE 0)
            /\ Count(q, " STARTPOSITION ") = 1
            /\ Count(q, " MAXRESULTS ") = 1
            /\ q[Len(q) - 3] = " STARTPOSITION "
            /\ q[Len(q) - 1] = " MAXRESULTS "
            /\ n = 0 => Len(q) = 6

\* queryInvoices with all four predicates, joined by three " AND ".
C29_Witness ==
    /\ Built
    /\ qcall.op = "queryInvoices"
    /\ Predicates(qcall.op, qcall.options) = 4
    /\ Count(qsql.query, " AND ") = 3
    /\ Flatten(qsql.query) =
        "SELECT * FROM Invoice WHERE CustomerRef = '123' AND Balance = '0' AND TxnDate >= '2026-01-01' AND TxnDate <= '2026-01-31' STARTPOSITION 1 MAXRESULTS 100"

(***************************************************************************)
(* Properties of overlapping operations (checked under RaceSpec).          *)
(***************************************************************************)
\* Caller p's exchange is in flight and no token response has reached the
\* client since p's getAccessToken tested the cache (every response writes
\* an access token never seen before).
Racing(p) ==
    /\ pc[p] = "exchange"
    /\ chk[p].accessToken = accessToken

\* C21: there is no single-flight guard.  An operation that finds the cached
\* token absent or expired can always post its own exchange, whatever is in
\* flight; the operations that did so before any exchange response arrived
\* all have their exchange in flight at once, each sending the same stored
\* refresh token.
C21_NoSingleFlight ==
    /\ \A p \in Procs :
        (pc[p] = "intercept" /\ ~TokenValid(accessToken, tokenExpiry, now))
            => ENABLED Exchange(p)
    /\ \A p \in Procs :
        (/\ chk[p] # Undefined
         /\ ~CachedUsable(chk[p])
         /\ chk[p].accessToken = accessToken
         /\ ~authErr[p].defined)
            => Racing(p) /\ nExch[p] = 1
    /\ \A p \in Procs :
        Racing(p) =>
            /\ grant[p].grant_type = "refresh_token"
            /\ grant[p].refresh_token = config.refreshToken

C21_Witness ==
    /\ \A p \in Procs : Racing(p) /\ grant[p].refresh_token = "rt0"
    /\ Cardinality({p \in Procs : reply[p] = Undefined}) >= 2

\* No exchange is in flight: every grant posted has been answered and the
\* answer has been received.
Quiescent == \A p \in Procs : pc[p] # "exchange"

\* C22: a rotated refresh token is never overwritten by the result of an
\* exchange the authorization server processed earlier: once every exchange
\* in flight has completed, the stored refresh token is the one the server
\* issued last, and the cached access token is the one issued with it.
C22_LastIssuedWins ==
    (Quiescent /\ issued # Undefined) =>
        /\ accessToken = issued.data.access_token
        /\ Has(issued.data, "refresh_token") =>
                config.refreshToken = issued.data.refresh_token

\* Two overlapping refreshes are over; the server issued at2/rt2 last, and
\* the client is left with the pair it issued first.
C22_Witness ==
    /\ Quiescent
    /\ issued # Undefined
    /\ issued.data.access_token = "at2"
    /\ Field(issued.data, "refresh_token") = Defined("rt2")
    /\ accessToken = "at1"
    /\ config.refreshToken = "rt1"

\* Caller p's API request leaves in this step, its token attached.
Sends(p) == wire[p] = Undefined /\ wire'[p] # Undefined

\* C23 as stated: no API request is ever sent carrying an access token whose
\* locally computed expiry instant has already been reached at the moment
\* the token is attached, for every lifetime and every interleaving.
C23_NeverAttachedExpired ==
    [][\A p \in Procs : Sends(p) => now' < tokenExpiry']_vars

\* C23 amended: the token attached to a request is the cached one; when it is
\* reused from the cache its expiry instant has not been reached; when it
\* was obtained by this operation's own exchange it is attached without a
\* test, so it goes out with its expiry instant already reached exactly when
\* the declared lifetime is at most the safety margin.
C23_ReusedNeverExpired ==
    [][\A p \in Procs :
        Sends(p) =>
            /\ wire'[p].headers.Authorization = <<"Bearer ", accessToken'>>
            /\ nExch'[p] = 0 => now' < tokenExpiry'
            /\ nExch'[p] = 1 =>
                    (now' < tokenExpiry'
                        <=> arrived'.data.expires_in > SafetyMargin)]_vars

\* One caller's request went out with the token its exchange obtained, and
\* another's with that token reused from the cache, still unexpired.
C23_Witness ==
    \E p, q \in Procs :
        /\ pc[p] = "inflight" /\ nExch[p] = 1
        /\ pc[q] = "inflight" /\ nExch[q] = 0
        /\ chk[q].time < chk[q].tokenExpiry
        /\ token[q] = token[p]
        /\ arrived.data.expires_in = SafetyMargin + 1

\* Caller p's getAccessToken tested the cache while it held the token of the
\* response received last.
SawLast(p) ==
    /\ chk[p] # Undefined
    /\ arrived # Undefined
    /\ chk[p].accessToken = arrived.data.access_token

\* C24: the 60-second margin is applied exactly once.  After a response that
\* arrived at time t with lifetime E seconds, an operation at time u reuses
\* the token iff u < t + E - 60 and refreshes iff u >= t + E - 60 (instants
\* in ms); so with E <= 60 the token is never reused.
C24_MarginOnce ==
    \A p \in Procs :
        SawLast(p) =>
            LET t == arrived.at
                E == arrived.data.expires_in
                u == chk[p].time
            IN  /\ nExch[p] = 0 <=> u < t + (E - 60) * 1000
                /\ nExch[p] = 1 <=> u >= t + (E - 60) * 1000
                /\ E <= 60 => nExch[p] = 1

\* A lifetime of 61 seconds: an operation one second after the response
\* arrived, at the very instant t + E - 60, refreshes.
C24_Witness ==
    /\ arrived # Undefined
    /\ arrived.data.expires_in = 61
    /\ \E q \in Procs :
        /\ SawLast(q)
        /\ chk[q].time = arrived.at + 1000
        /\ pc[q] = "exchange"
        /\ nExch[q] = 1

\* C25: in every reachable state, also while refreshes overlap, the cached
\* access token and the cached expiry instant were written by the same
\* token response: both are the initial values, or both come from the
\* response received last.
C25_PairFromOneResponse ==
    IF arrived = Undefined
    THEN accessToken = "" /\ tokenExpiry = 0
    ELSE /\ accessToken = arrived.data.access_token
         /\ tokenExpiry = arrived.at + (arrived.data.expires_in - 60) * 1000

\* Two refreshes overlapped; the second response issued was received first
\* and the first, with the shorter lifetime, was received after it.
C25_Witness ==
    /\ Quiescent
    /\ arrived # Undefined
    /\ arrived.data.access_token = "at1"
    /\ arrived.data.expires_in = 60
    /\ \E p \in Procs :
        /\ token[p] = Defined("at2")
        /\ nExch[p] = 1
    /\ tokenExpiry = arrived.at

(***************************************************************************)
(* Properties of failures, for operations invoked one after the other      *)
(* (checked under Spec).                                                   *)
(***************************************************************************)
\* Caller p's getAccessToken tests the cache in this step.
Consults(p) == chk[p] = Undefined /\ chk'[p] # Undefined

\* C26: a failed token exchange leaves the cached access token, the cached
\* expiry instant and the stored refresh token as they were, and the next
\* operation attempts the exchange again with the same refresh token.
C26_FailedExchangeLeavesState ==
    [][\A p \in Procs :
        /\ (~authErr[p].defined /\ authErr'[p].defined) =>
                /\ accessToken' = accessToken
                /\ tokenExpiry' = tokenExpiry
                /\ config' = config
                /\ failed' = Defined(config.refreshToken)
        /\ (failed # Undefined /\ Consults(p)) =>
                /\ nExch'[p] = 1
                /\ grant'[p].grant_type = "refresh_token"
                /\ grant'[p].refresh_token = failed.value]_vars

\* An exchange sending the rotated token xyz has failed; the expired token
\* abc is still cached and xyz is still stored.
C26_Witness ==
    \E p \in Procs :
        /\ authErr[p] = Defined("invalid_grant")
        /\ failed = Defined("xyz")
        /\ config.refreshToken = "xyz"
        /\ accessToken = "abc"
        /\ tokenExpiry < now
        /\ tokenExpiry = chk[p].tokenExpiry

\* Caller p's getAccessToken builds and posts its grant in this step.
Posts(p) == grant[p] = Undefined /\ grant'[p] # Undefined

\* Caller p's getAccessToken receives a token response in this step.
Receives(p) == pc[p] = "exchange" /\ pc'[p] = "inflight"

\* C27: every exchange sends grant_type refresh_token, with Basic
\* credentials, and the refresh token stored when the request is built.  The
\* stored token changes only when a response that returns one is received,
\* and becomes that one, so the n-th of a sequence of refreshes sends the
\* token of the most recent earlier response that returned one (the
\* configured one if none did); the other fields of the credentials record
\* never change.
C27_GrantCarriesStoredToken ==
    [][/\ \A p \in Procs :
            /\ Posts(p) =>
                /\ grant'[p].grant_type = "refresh_token"
                /\ grant'[p].refresh_token = config.refreshToken
                /\ grant'[p].basic = <<"client", ":", "secret">>
                /\ grant'[p].url =
                    "https://oauth.platform.intuit.com/oauth2/v1/tokens/bearer"
            /\ Receives(p) =>
                config'.refreshToken =
                    (IF lastResp'.refresh_token.defined
                     THEN lastResp'.refresh_token.value
                     ELSE config.refreshToken)
       /\ (\A p \in Procs : ~Receives(p)) => config' = config
       /\ lastResp = Undefined => config.refreshToken = "rt0"
       /\ \A k \in {"clientId", "clientSecret", "companyId", "environment"} :
            config'[k] = InitialConfig[k]]_vars

\* The third exchange of a sequence is in flight: the first response rotated
\* in xyz, the second returned no refresh token, and the grant carries xyz.
C27_Witness ==
    \E p \in Procs :
        /\ pc[p] = "exchange"
        /\ lastResp # Undefined
        /\ ~lastResp.refresh_token.defined
        /\ lastResp.previous = "xyz"
        /\ grant[p].refresh_token = "xyz"

\* The remote API rejects caller p's request in this step.
Rejected(p) ==
    /\ resp[p] = Undefined
    /\ Has(resp'[p], "error")

\* What a rejection does to the client, and what the next operations send:
\* the cache and the credentials are left alone, nothing is exchanged or
\* sent again, and an operation that consults the cache before the expiry
\* instant sends the cached token.
KeepsToken(p) ==
    /\ Rejected(p) =>
        /\ accessToken' = accessToken
        /\ tokenExpiry' = tokenExpiry
        /\ config' = config
        /\ accessToken' = token[p].value
        /\ nExch' = nExch /\ nReq' = nReq
    /\ (Consults(p) /\ accessToken # "" /\ now < tokenExpiry) =>
        /\ nExch'[p] = 0
        /\ accessToken' = accessToken
        /\ wire'[p].headers.Authorization = <<"Bearer ", accessToken>>

\* C28 as stated: when the remote API rejects a request while the cached
\* token is locally unexpired, the token is neither cleared nor refreshed,
\* the failure propagates, and the following operations keep sending the
\* same token until its expiry instant.
C28_RejectionPropagates ==
    [][\A p \in Procs :
        /\ KeepsToken(p)
        /\ Rejected(p) => result'[p] = Failure(resp'[p].error)]_vars

\* C28 amended: the same, except that getCustomer does not propagate the
\* failure but returns null.
C28_RejectionKeepsToken ==
    [][\A p \in Procs :
        /\ KeepsToken(p)
        /\ Rejected(p) =>
            result'[p] = (IF call[p].op = "getCustomer"
                          THEN Value(Null) ELSE Failure(resp'[p].error))]_vars

\* A query was rejected with 401 while the cached token had a second left.
C28_Witness ==
    \E p \in Procs :
        /\ resp[p] = Failure("401")
        /\ result[p] = Failure("401")
        /\ call[p].op = "queryCustomers"
        /\ nExch[p] = 0
        /\ accessToken = "def"
        /\ tokenExpiry = now + MsPerSec

(***************************************************************************)
(* Properties of the HTTP session map (checked under HttpSpec).            *)
(***************************************************************************)
\* The ids whose session was deleted: those of the closed transports.
DeletedIds ==
    {transports[i].sessionId.value :
        i \in {j \in 1..Len(transports) : transports[j].state = "closed"}}

\* A request is handled in this step.
Handled == answer' # answer

\* C30: in HTTP mode a request is routed to a stored transport only if its
\* mcp-session-id is in the session map at that moment; an id enters the map
\* only once the first POST of its session has been handled successfully,
\* and leaves it only through DELETE, which closes its transport and always
\* answers 200; after DELETE of id S a GET with S answers 400 and a POST
\* with S creates a new transport instead of reusing the closed one.
C30_SessionMap ==
    [][/\ (Handled /\ answer'.routed.defined) =>
            /\ Known(answer'.id)
            /\ answer'.routed.value = sessions[answer'.id.value]
            /\ transports[answer'.routed.value].state = "stored"
            /\ transports[answer'.routed.value].sessionId = answer'.id
       /\ \A id \in DOMAIN sessions' \ DOMAIN sessions :
            \E i \in 1..Len(transports) :
                /\ transports[i] = [sessionId |-> Defined(id),
                                    state |-> "handled"]
                /\ sessions'[id] = i
       /\ \A id \in DOMAIN sessions \ DOMAIN sessions' :
            /\ answer' = Answer("DELETE", Defined(id), Undefined, Undefined,
                                "200")
            /\ transports'[sessions[id]].state = "closed"
       /\ \A id \in DOMAIN sessions \cap DOMAIN sessions' :
            sessions'[id] = sessions[id]
       /\ (Handled /\ answer'.method = "DELETE") => answer'.status = "200"
       /\ (Handled /\ answer'.id.defined /\ answer'.id.value \in DeletedIds) =>
            /\ ~answer'.routed.defined
            /\ answer'.method = "GET" => answer'.status = "400"
            /\ answer'.method = "POST" =>
                /\ answer'.created = Defined(Len(transports) + 1)
                /\ transports' = Append(transports, [sessionId |-> Undefined,
                                                     state |-> "handling"])]_vars

\* Session s1 was deleted, and a POST carrying s1 has been given the second
\* transport while the first stays closed.
C30_Witness ==
    /\ answer = Answer("POST", Defined("s1"), Undefined, Defined(2), "pending")
    /\ Len(transports) = 2
    /\ transports[1] = [sessionId |-> Defined("s1"), state |-> "closed"]
    /\ ~Has(sessions, "s1")

====
